---- MODULE Spec2Model ----
(***************************************************************************)
(* TranscribeFlow upload page: file selection and validation, the single   *)
(* upload task, the sequential batch upload and the log channel.           *)
(*                                                                         *)
(* Two versions of the page are in the repository and both are modelled:   *)
(*   frontend/static/upload.js  (batch-capable page)  -> Spec, SpecCap,    *)
(*                                                       SpecPages         *)
(*   frontend/upload.js         (single-file page)    -> SpecPages         *)
(* They have the same fields (currentFile, isProcessing, ws, requestId),   *)
(* so they share the variables; each specification runs one page.          *)
(***************************************************************************)
EXTENDS Integers, Sequences, FiniteSets, TLC

\* ------------------------------------------------------------------ bounds
NumFiles == 19          \* candidate files a user can pick from (ids 1..NumFiles)
SmallFiles == 4         \* Spec picks among files 1..SmallFiles
NumDocs == 1            \* distinct result documents the server can return
MaxEdits == 4           \* user gestures (picks, removals, clicks) in one behaviour
MaxClicks == 3          \* user gestures in one behaviour of SpecPages
MaxMsgs == 1            \* channel messages delivered in one behaviour
MaxFallback == 1        \* of the timers of one startFallbackLogs call, those that fire
                        \* in one behaviour (the first MaxFallback of them)
MaxGestures == 5        \* user gestures in one behaviour of SpecRecover
MaxLogCalls == 103      \* user gestures in one behaviour of SpecLogs: enough to
                        \* fill the log panel of either page past its limit
MaxFormEdits == 5       \* user gestures in one behaviour of SpecForm

\* -------------------------------------------------------- candidate files
MiB == 1048576

\* The six kinds of candidate file; file f is of kind ((f-1) % 6) + 1.
FileKinds ==
  << [type |-> "audio/mpeg",               ext |-> "mp3", size |-> 10 * MiB],
     [type |-> "text/plain",               ext |-> "txt", size |-> 1024],
     [type |-> "",                         ext |-> "wav", size |-> 25 * MiB],
     [type |-> "audio/x-m4a",              ext |-> "m4a", size |-> 1],
     [type |-> "audio/wav",                ext |-> "wav", size |-> 25 * MiB + 1],
     [type |-> "application/octet-stream", ext |-> "OGG", size |-> 3 * MiB] >>

File(f) == FileKinds[((f - 1) % 6) + 1]

\* String.prototype.toLowerCase on the extensions that occur.
toLowerCase(s) ==
  CASE s = "OGG" -> "ogg"
    [] s = "MP3" -> "mp3"
    [] s = "WAV" -> "wav"
    [] OTHER -> s

validTypes == {"audio/mp3", "audio/wav", "audio/m4a", "audio/ogg", "audio/x-m4a", "audio/mpeg"}
validExtensions == {".mp3", ".wav", ".m4a", ".ogg"}
maxSize == 25 * 1024 * 1024

\* '.' + file.name.split('.').pop().toLowerCase(); extensions are kept
\* without the dot in FileKinds, so the dot is added to the valid set instead.
fileExtension(f) == toLowerCase(File(f).ext)
dotted(e) ==
  CASE e = "mp3" -> ".mp3" [] e = "wav" -> ".wav" [] e = "m4a" -> ".m4a"
    [] e = "ogg" -> ".ogg" [] e = "txt" -> ".txt" [] OTHER -> "."

\* (variant: the type and extension test is missing)
validateFile_sizeOnly(f) == File(f).size <= maxSize

validateFile(f) ==
  (File(f).type \in validTypes \/ dotted(fileExtension(f)) \in validExtensions)
  /\ File(f).size <= maxSize

\* frontend/upload.js: the type alone decides, no extension fallback.
legacy_validateFile(f) ==
  File(f).type \in validTypes /\ File(f).size <= maxSize

\* ------------------------------------------------------------ sequences
\* handleFileSelect's loop: the files that pass validateFile, in order.
RECURSIVE validFilesOf(_)
validFilesOf(files) ==
  IF files = <<>> THEN <<>>
  ELSE IF ~validateFile(Head(files)) THEN validFilesOf(Tail(files))
       ELSE <<Head(files)>> \o validFilesOf(Tail(files))

\* ... and the "Invalid file: <name>. Skipped." toasts the loop shows.
RECURSIVE invalidToastsOf(_)
invalidToastsOf(files) ==
  IF files = <<>> THEN <<>>
  ELSE IF ~validateFile(Head(files))
       THEN <<[msg |-> "Invalid file. Skipped.", type |-> "warning",
               arg |-> Head(files), arg2 |-> 0]>>
            \o invalidToastsOf(Tail(files))
       ELSE invalidToastsOf(Tail(files))

\* Array.prototype.splice(index, 1)
splice1(s, index) ==
  IF index \in 1..Len(s)
  THEN SubSeq(s, 1, index - 1) \o SubSeq(s, index + 1, Len(s))
  ELSE s

\* (variant: slice instead of splice, the array keeps its length)
spliceFrom_none(s, n) == s

\* Array.prototype.splice(n): keep the first n elements
spliceFrom(s, n) == IF Len(s) > n THEN SubSeq(s, 1, n) ELSE s

Range(a, b) == [k \in 1..(b - a + 1) |-> a + k - 1]

\* File lists a file dialog or a drop can deliver: runs of consecutive
\* files, here files 1..n together, file 1 alone and file 2 (bad.txt) alone.
PickLists(n) == {Range(1, n), Range(1, 1), Range(2, 2)}
\* ... and arbitrary runs, for the specifications about the selection alone
RunLists(n) == {Range(a, b) : a \in 1..n, b \in 1..n}
LongLists == {Range(a, b) : a \in 1..2, b \in (NumFiles - 1)..NumFiles}

\* ------------------------------------------------------------- messages
Toast(m, t) == [msg |-> m, type |-> t, arg |-> 0, arg2 |-> 0]
Toast2(m, t, a, b) == [msg |-> m, type |-> t, arg |-> a, arg2 |-> b]

\* Result documents of POST /api/upload for file f; NoDoc is null.
Docs(f) == {[id |-> n, filename |-> f, transcript |-> n] : n \in 1..NumDocs}
NoDoc == [id |-> 0, filename |-> 0, transcript |-> 0]

\* JSON.stringify(data) as kept in sessionStorage; NoItem is a missing item.
JSON_stringify(d) == <<"json", d.id, d.filename, d.transcript>>
NoItem == <<>>

\* What the upload call can come back with.
\*   ok      : 2xx with a result document
\*   http    : non-2xx; detail "" stands for a body without a usable detail
\*   unauth  : 401 (static page: fetchWithAuth returns null)
\*   network : fetch rejects
Statuses == {400, 500}
Details == {"", "Unsupported audio format"}
Responses(f) ==
  {[kind |-> "ok", status |-> 200, detail |-> "", doc |-> d] : d \in Docs(f)}
  \cup {[kind |-> "http", status |-> st, detail |-> dt, doc |-> NoDoc] :
          st \in Statuses, dt \in Details}
  \cup {[kind |-> "unauth", status |-> 401, detail |-> "", doc |-> NoDoc],
        [kind |-> "network", status |-> 0, detail |-> "", doc |-> NoDoc]}

\* An Error's message: a text and, where one is appended, a status code.
Message(t, st) == [text |-> t, status |-> st]
NoMessage == Message("", 0)

\* ---------------------------------------------------------------- state
VARIABLES
  selectedFiles,       \* this.selectedFiles
  domFiles,            \* elements.audioFileInput.files
  batchFileList,       \* rendered batch list: one row per item, with its name
                       \* and its diarization checkbox
  enableDiarization,   \* elements.enableDiarization.checked
  numSpeakers,         \* elements.numSpeakers.value
  toasts,              \* toasts shown by the last handler that showed any
  isProcessing,        \* this.isProcessing
  processBtnDisabled,  \* elements.processBtn.disabled
  currentFile,         \* this.currentFile
  sessionResults,      \* sessionStorage 'transcribeResults'
  lastResultId,        \* localStorage 'lastResultId'
  resultsReady,        \* elements.resultsReady is shown
  batchResultsReady,   \* elements.batchResultsReady is shown
  batchResultsSummary, \* the batch summary line on display (none while hidden)
  batchResultsList,    \* the batch result rows on display (none while hidden)
  ws,                  \* this.ws: index into chan, 0 for null
  chan,                \* every WebSocket constructed so far; `opened` records
                       \* that its open event has fired (not in the code), `out`
                       \* the messages the page has sent on it
  requestId,           \* this.requestId, 0 for null
  tasks,               \* the calls of processAudioFile / handleBatchUpload
  inflight,            \* upload requests sent and not yet answered
  sent,                \* the upload requests dispatched since the last job started
  closeTimers,         \* pending delayed-close timeouts
  hasLogsContent,      \* elements.logsContent exists
  logsContent,         \* children of elements.logsContent
  logs,                \* this.logs
  progress,            \* elements.progressFill width (frontend/upload.js)
  errorMsg,            \* elements.errorMsgDiv text (frontend/upload.js)
  fallbackTimers,      \* pending fallback-log timeouts (frontend/upload.js), one
                       \* entry per startFallbackLogs call: the next canned entry
                       \* and the job running when it was made (not in the code)
  edits,               \* user gestures so far (bounds the exploration)
  touched,             \* the selection was changed under the running batch
  msgs,                \* channel messages delivered so far (bounds the exploration)
  page                 \* which version of the page is loaded

formVars == <<enableDiarization, numSpeakers>>
selVars == <<selectedFiles, domFiles, batchFileList, formVars>>
resVars == <<currentFile, sessionResults, lastResultId, resultsReady>>
batchUI == <<batchResultsReady, batchResultsSummary, batchResultsList>>
procVars == <<isProcessing, processBtnDisabled>>
chanVars == <<ws, chan, requestId>>
jobVars == <<tasks, inflight, sent>>
logVars == <<hasLogsContent, logsContent, logs>>
legacyUI == <<progress, errorMsg, fallbackTimers>>

vars == <<selVars, toasts, procVars, resVars, batchUI, chanVars, jobVars,
          closeTimers, logVars, legacyUI, edits, touched, msgs, page>>

\* ------------------------------------------------------------------ logs
Log(m, lv) == [msg |-> m, level |-> lv]

\* static/upload.js addLog: newest first, at most 50 children; nothing at all
\* when the page has no logsContent element.
addLog(lc, m, lv) ==
  IF ~hasLogsContent THEN lc
  ELSE LET l1 == <<Log(m, lv)>> \o lc
       IN IF Len(l1) > 50 THEN SubSeq(l1, 1, 50) ELSE l1

NoSummary == [kind |-> "none", done |-> 0, succeeded |-> 0, failed |-> 0, total |-> 0]

InitPage ==
  /\ selectedFiles = <<>> /\ domFiles = <<>> /\ batchFileList = <<>>
  /\ enableDiarization = FALSE /\ numSpeakers = ""
  /\ toasts = <<>>
  /\ isProcessing = FALSE /\ processBtnDisabled = FALSE
  /\ currentFile = NoDoc /\ sessionResults = NoItem /\ lastResultId = 0
  /\ resultsReady = FALSE
  /\ batchResultsReady = FALSE /\ batchResultsSummary = NoSummary
  /\ batchResultsList = <<>>
  /\ ws = 0 /\ chan = <<>> /\ requestId = 0
  /\ tasks = <<>> /\ inflight = {} /\ sent = <<>>
  /\ closeTimers = 0
  /\ logs = <<>>
  /\ progress = 0 /\ errorMsg = NoMessage /\ fallbackTimers = <<>>
  /\ edits = 0 /\ touched = FALSE /\ msgs = 0

\* frontend/static/upload.js is loaded in a document without a log panel
Init == InitPage /\ page = "static" /\ hasLogsContent = FALSE /\ logsContent = <<>>

\* ------------------------------------------------- selection (static page)
hideBatchFileList == <<>>

\* renderBatchFileList: one row per selected file, its checkbox unchecked
renderBatchFileList(files) ==
  [k \in 1..Len(files) |-> [name |-> files[k], checked |-> FALSE]]

\* uploadForm.reset(): the controls of the form go back to their defaults
uploadForm_reset == enableDiarization' = FALSE /\ numSpeakers' = ""

\* (variant: the file input keeps its files)
resetFileSelection_keepInput ==
  /\ domFiles' = domFiles
  /\ selectedFiles' = <<>>
  /\ batchFileList' = hideBatchFileList

\* resetFileSelection, as the new values of selVars
resetFileSelection ==
  /\ domFiles' = <<>>
  /\ selectedFiles' = <<>>
  /\ batchFileList' = hideBatchFileList

\* The file dialog or a drop puts `files` in the input, then the change
\* handler runs.
handleFileSelect(files) ==
  LET validFiles == validFilesOf(files)
      invalid == invalidToastsOf(files)
      kept == spliceFrom(validFiles, 10)
  IN
  IF Len(files) = 0
  THEN /\ domFiles' = files
       /\ UNCHANGED <<selectedFiles, batchFileList, toasts, logVars>>
  ELSE IF Len(validFiles) = 0
  THEN /\ resetFileSelection
       /\ toasts' = invalid \o <<Toast("No valid files selected.", "error")>>
       /\ UNCHANGED logVars
  ELSE /\ domFiles' = files
       /\ selectedFiles' = kept
       /\ batchFileList' = IF Len(kept) = 1 THEN hideBatchFileList
                           ELSE renderBatchFileList(kept)
       /\ toasts' = invalid
            \o (IF Len(validFiles) > 10
                THEN <<Toast("Maximum 10 files per batch. Only first 10 will be used.",
                             "warning")>>
                ELSE <<>>)
            \o (IF Len(kept) = 1
                THEN <<Toast("File selected successfully", "success")>>
                ELSE <<Toast2("files selected", "success", Len(kept), 0)>>)
       /\ logsContent' = addLog(logsContent,
                                IF Len(kept) = 1 THEN "Selected" ELSE "Batch", "info")
       /\ UNCHANGED <<hasLogsContent, logs>>

FileSelect(files) ==
  /\ handleFileSelect(files)
  /\ UNCHANGED <<formVars, procVars, resVars, batchUI, chanVars, jobVars,
                 closeTimers, legacyUI>>

\* handleDrop: with a first file present, the dropped list goes into the
\* input and handleFileSelect runs on it.
handleDrop(files) ==
  /\ Len(files) > 0
  /\ FileSelect(files)

\* The remove button of row `index` (1-based) of the rendered batch list.
removeFileFromBatch(index) ==
  LET rest == splice1(selectedFiles, index) IN
  /\ index \in 1..Len(batchFileList)
  /\ IF Len(rest) = 0
     THEN resetFileSelection
     ELSE /\ selectedFiles' = rest
          /\ batchFileList' = IF Len(rest) = 1 THEN hideBatchFileList
                              ELSE renderBatchFileList(rest)
          /\ UNCHANGED domFiles
  /\ logsContent' = addLog(logsContent, "Removed file", "info")
  /\ UNCHANGED <<formVars, hasLogsContent, logs, toasts, procVars, resVars, batchUI,
                 chanVars, jobVars, closeTimers, legacyUI>>

\* -------------------------------------------------------------- channel
\* WebSocket.close(): a socket still connecting fails (its error event is
\* then pending), an open one is closed, a closed one stays closed.
closeChan(ch, c) ==
  IF c = 0 THEN ch
  ELSE [ch EXCEPT ![c].state =
          IF @ = "connecting" THEN "aborted"
          ELSE IF @ = "open" THEN "closed" ELSE @]

\* (variant: the current socket is not closed first)
connectWebSocket_keepOld(rid, throws) ==
  /\ chan' = Append(chan, [rid |-> rid, state |-> "connecting", opened |-> FALSE,
                           out |-> <<>>])
  /\ ws' = Len(chan) + 1

\* (variant: the socket is never constructed)
connectWebSocket_skipped(rid, throws) ==
  /\ chan' = closeChan(chan, ws)
  /\ ws' = ws

\* connectWebSocket (static page): close the current socket, construct the
\* new one; when the constructor throws the catch keeps the old reference.
connectWebSocket(rid, throws) ==
  LET closed == closeChan(chan, ws) IN
  IF throws
  THEN /\ chan' = closed
       /\ ws' = ws
  ELSE /\ chan' = Append(closed, [rid |-> rid, state |-> "connecting",
                                   opened |-> FALSE, out |-> <<>>])
       /\ ws' = Len(chan) + 1

\* generateRequestId: 'req_' + Date.now() + '_' + 9 random characters, taken
\* as a fresh value; every started job generates exactly one.
generateRequestId == Len(tasks) + 1

\* (variant: the delayed close also hides the results panel)
closeTimerFires_hidesResults ==
  /\ closeTimers > 0
  /\ closeTimers' = closeTimers - 1
  /\ chan' = closeChan(chan, ws)
  /\ ws' = 0
  /\ resultsReady' = FALSE
  /\ UNCHANGED <<selVars, toasts, procVars, currentFile, sessionResults, lastResultId,
                 batchUI, requestId, jobVars, logVars, legacyUI>>

\* (variant: the socket is closed but the reference is kept)
closeTimerFires_keepRef ==
  /\ closeTimers > 0
  /\ closeTimers' = closeTimers - 1
  /\ chan' = closeChan(chan, ws)
  /\ ws' = ws
  /\ UNCHANGED <<selVars, toasts, procVars, resVars, batchUI, requestId, jobVars,
                 logVars, legacyUI>>

\* The delayed close: setTimeout(() => { if (this.ws) { close; null } }, 2000)
closeTimerFires ==
  /\ closeTimers > 0
  /\ closeTimers' = closeTimers - 1
  /\ chan' = closeChan(chan, ws)
  /\ ws' = 0
  /\ UNCHANGED <<selVars, toasts, procVars, resVars, batchUI, requestId, jobVars,
                 logVars, legacyUI>>

\* hideBatchResults: the panel gets the class hidden.  Its rows and summary
\* stay in the document but are not on display, and every later showing
\* renders both anew first.
hideBatchResults ==
  /\ batchResultsReady' = FALSE
  /\ batchResultsSummary' = NoSummary
  /\ batchResultsList' = <<>>

\* ------------------------------------------------- upload (static page)
NewTask(kind, file) ==
  [kind |-> kind, pc |-> "wait200", file |-> file, totalFiles |-> 0, i |-> 0,
   results |-> <<>>, successCount |-> 0, errorCount |-> 0,
   lastSuccessData |-> NoDoc,
   diarizationSettings |-> <<>>, numSpeakersVal |-> "",
   queue |-> <<>>,    \* the selection when the batch loop began (not in the code)
   rows |-> <<>>]     \* the batch list when the batch loop began (not in the code)

\* A call that has returned (or thrown) keeps only how it ended.
Ended(tk, pc) ==
  [NewTask(tk.kind, 0) EXCEPT !.pc = pc, !.totalFiles = tk.totalFiles,
                              !.queue = tk.queue, !.rows = tk.rows]

Request(t, idx, file) == [task |-> t, idx |-> idx, file |-> file]
\* A field that was not appended to the FormData
NoField == "(none)"

\* The diarization fields of processAudioFile's FormData, from the checkbox
\* and the speaker count of the form.
singleFormData(checked, value) ==
  IF checked
  THEN [enable_diarization |-> "true",
        num_speakers |-> IF value # "" THEN value ELSE NoField]
  ELSE [enable_diarization |-> "false", num_speakers |-> NoField]

\* (variant: the count is sent whenever one was given)
batchFormData_alwaysCount(fileDiarization, numSpeakersVal) ==
  [enable_diarization |-> IF fileDiarization THEN "true" ELSE "false",
   num_speakers |-> IF numSpeakersVal # "" THEN numSpeakersVal ELSE NoField]

\* The diarization fields of the FormData of one batch item
batchFormData(fileDiarization, numSpeakersVal) ==
  [enable_diarization |-> IF fileDiarization THEN "true" ELSE "false",
   num_speakers |-> IF fileDiarization /\ numSpeakersVal # "" THEN numSpeakersVal
                    ELSE NoField]

\* (variant: the settings are read one position off)
fileDiarization_shifted(diarizationSettings, i) ==
  IF i + 2 \in DOMAIN diarizationSettings THEN diarizationSettings[i + 2] ELSE FALSE

\* diarizationSettings[i] || false, i counted from 0
fileDiarization(diarizationSettings, i) ==
  IF i + 1 \in DOMAIN diarizationSettings THEN diarizationSettings[i + 1] ELSE FALSE

\* The checked state of every .batch-diarization-cb, in document order
collectDiarization(list) == [k \in 1..Len(list) |-> list[k].checked]

\* frontend/upload.js appends the file and the language only
legacy_formData == [enable_diarization |-> NoField, num_speakers |-> NoField]

\* rid is this.requestId at the moment the request is sent (not in the code)
Sent(t, idx, file, form) ==
  [task |-> t, idx |-> idx, file |-> file, outcome |-> "pending", doc |-> NoDoc,
   rid |-> requestId,
   enable_diarization |-> form.enable_diarization, num_speakers |-> form.num_speakers]

\* The entry of `sent` for request req gets its outcome.
RECURSIVE answered(_, _, _)
answered(s, req, r) ==
  IF s = <<>> THEN <<>>
  ELSE IF Head(s).task = req.task /\ Head(s).idx = req.idx /\ Head(s).outcome = "pending"
       THEN <<[Head(s) EXCEPT !.outcome = IF r.kind = "ok" THEN "ok" ELSE "failed",
                              !.doc = r.doc]>> \o Tail(s)
       ELSE <<Head(s)>> \o answered(Tail(s), req, r)

\* if (!response || !response.ok) throw ...: the call came back with a 2xx
response_ok(r) == r.kind = "ok"

\* (variant: the transcript is lost on the way)
response_json_partial(r) == [r.doc EXCEPT !.transcript = 0]

\* const data = await response.json()
response_json(r) == r.doc

\* throw new Error(errorData?.detail || 'Upload failed'), or the rejection
\* of fetch itself
static_errorMessage(r) ==
  IF r.kind = "network" THEN Message("Failed to fetch", 0)
  ELSE IF r.kind = "http" /\ r.detail # "" THEN Message(r.detail, 0)
  ELSE Message("Upload failed", 0)

\* (variant: the guard is missing)
handleUpload_busy_never == FALSE

\* if (this.isProcessing) return;
handleUpload_busy == isProcessing

\* handleUpload up to the first await of the job it starts.
handleUpload(throws) ==
  LET files == IF Len(selectedFiles) = 0 THEN domFiles ELSE selectedFiles
      t == Len(tasks) + 1
  IN
  IF Len(files) = 0
  THEN /\ toasts' = <<Toast("Please select an audio file", "error")>>
       /\ UNCHANGED <<selVars, procVars, resVars, batchUI, chanVars, jobVars,
                      closeTimers, logVars, legacyUI>>
  ELSE
  /\ selectedFiles' = files
  /\ UNCHANGED <<domFiles, batchFileList, formVars>>
  /\ IF handleUpload_busy
     THEN UNCHANGED <<toasts, procVars, resVars, batchUI, chanVars, jobVars,
                      closeTimers, logVars, legacyUI>>
     ELSE
     /\ isProcessing' = TRUE
     /\ processBtnDisabled' = TRUE
     /\ resultsReady' = FALSE
     /\ requestId' = generateRequestId
     /\ connectWebSocket(generateRequestId, throws)
     /\ IF Len(files) = 1
        THEN /\ tasks' = Append(tasks, NewTask("single", files[1]))
             /\ UNCHANGED batchUI
        ELSE /\ tasks' = Append(tasks, NewTask("batch", 0))
             /\ hideBatchResults
     /\ sent' = <<>>
     /\ UNCHANGED <<toasts, currentFile, sessionResults, lastResultId, inflight,
                    closeTimers, logVars, legacyUI>>

\* processAudioFile after the 200 ms wait: the request is built and sent.
processAudioFile_send(t) ==
  /\ t \in 1..Len(tasks)
  /\ tasks[t].kind = "single" /\ tasks[t].pc = "wait200"
  /\ tasks' = [tasks EXCEPT ![t].pc = "fetch"]
  /\ inflight' = inflight \cup {Request(t, 0, tasks[t].file)}
  /\ sent' = Append(sent, Sent(t, 0, tasks[t].file,
                               singleFormData(enableDiarization, numSpeakers)))
  /\ logsContent' =
       LET lc1 == IF enableDiarization
                  THEN addLog(addLog(logsContent, "Speaker diarization enabled", "info"),
                              IF numSpeakers # "" THEN "Expecting speakers"
                              ELSE "Auto-detecting speaker count", "info")
                  ELSE logsContent
       IN addLog(lc1, "Uploading", "info")
  /\ UNCHANGED <<selVars, toasts, procVars, resVars, batchUI, chanVars,
                 closeTimers, hasLogsContent, logs, legacyUI>>

\* (variant: the catch block starts the upload again)
processAudioFile_response_retry(t, r) ==
  /\ t \in 1..Len(tasks)
  /\ tasks[t].kind = "single" /\ tasks[t].pc = "fetch"
  /\ Request(t, 0, tasks[t].file) \in inflight
  /\ r \in Responses(tasks[t].file)
  /\ inflight' = inflight \ {Request(t, 0, tasks[t].file)}
  /\ sent' = answered(sent, Request(t, 0, tasks[t].file), r)
  /\ tasks' = [tasks EXCEPT ![t] = IF response_ok(r) THEN Ended(tasks[t], "done")
                                   ELSE [tasks[t] EXCEPT !.pc = "wait200"]]
  /\ IF response_ok(r)
     THEN /\ currentFile' = response_json(r)
          /\ sessionResults' = JSON_stringify(response_json(r))
          /\ lastResultId' = response_json(r).id
          /\ resultsReady' = TRUE
          /\ toasts' = <<Toast("Audio processed successfully!", "success")>>
          /\ logsContent' = addLog(addLog(logsContent, "Processing complete!", "success"),
                                   "File", "info")
     ELSE /\ toasts' = <<[msg |-> static_errorMessage(r).text, type |-> "error",
                           arg |-> static_errorMessage(r).status, arg2 |-> 0]>>
          /\ logsContent' = addLog(logsContent, "Processing failed", "error")
          /\ UNCHANGED resVars
  /\ isProcessing' = FALSE
  /\ processBtnDisabled' = FALSE
  /\ closeTimers' = closeTimers + 1
  /\ UNCHANGED <<selVars, batchUI, chanVars, hasLogsContent, logs, legacyUI>>

\* (variant: the catch block drops the result held)
processAudioFile_response_clears(t, r) ==
  /\ t \in 1..Len(tasks)
  /\ tasks[t].kind = "single" /\ tasks[t].pc = "fetch"
  /\ Request(t, 0, tasks[t].file) \in inflight
  /\ r \in Responses(tasks[t].file)
  /\ inflight' = inflight \ {Request(t, 0, tasks[t].file)}
  /\ sent' = answered(sent, Request(t, 0, tasks[t].file), r)
  /\ tasks' = [tasks EXCEPT ![t] = Ended(tasks[t], "done")]
  /\ IF response_ok(r)
     THEN /\ currentFile' = response_json(r)
          /\ sessionResults' = JSON_stringify(response_json(r))
          /\ lastResultId' = response_json(r).id
          /\ resultsReady' = TRUE
          /\ toasts' = <<Toast("Audio processed successfully!", "success")>>
          /\ logsContent' = addLog(addLog(logsContent, "Processing complete!", "success"),
                                   "File", "info")
     ELSE /\ toasts' = <<[msg |-> static_errorMessage(r).text, type |-> "error",
                           arg |-> static_errorMessage(r).status, arg2 |-> 0]>>
          /\ logsContent' = addLog(logsContent, "Processing failed", "error")
          /\ currentFile' = NoDoc
          /\ sessionResults' = NoItem
          /\ UNCHANGED <<lastResultId, resultsReady>>
  /\ isProcessing' = FALSE
  /\ processBtnDisabled' = FALSE
  /\ closeTimers' = closeTimers + 1
  /\ UNCHANGED <<selVars, batchUI, chanVars, hasLogsContent, logs, legacyUI>>

\* processAudioFile from the answer of the upload call to the end of finally.
processAudioFile_response(t, r) ==
  /\ t \in 1..Len(tasks)
  /\ tasks[t].kind = "single" /\ tasks[t].pc = "fetch"
  /\ Request(t, 0, tasks[t].file) \in inflight
  /\ r \in Responses(tasks[t].file)
  /\ inflight' = inflight \ {Request(t, 0, tasks[t].file)}
  /\ sent' = answered(sent, Request(t, 0, tasks[t].file), r)
  /\ tasks' = [tasks EXCEPT ![t] = Ended(tasks[t], "done")]
  /\ IF response_ok(r)
     THEN /\ currentFile' = response_json(r)
          /\ sessionResults' = JSON_stringify(response_json(r))
          /\ lastResultId' = response_json(r).id
          /\ resultsReady' = TRUE
          /\ toasts' = <<Toast("Audio processed successfully!", "success")>>
          /\ logsContent' = addLog(addLog(logsContent, "Processing complete!", "success"),
                                   "File", "info")
     ELSE /\ toasts' = <<[msg |-> static_errorMessage(r).text, type |-> "error",
                           arg |-> static_errorMessage(r).status, arg2 |-> 0]>>
          /\ logsContent' = addLog(logsContent, "Processing failed", "error")
          /\ UNCHANGED resVars
  /\ isProcessing' = FALSE
  /\ processBtnDisabled' = FALSE
  /\ closeTimers' = closeTimers + 1
  /\ UNCHANGED <<selVars, batchUI, chanVars, hasLogsContent, logs, legacyUI>>

\* ------------------------------------------------- batch (static page)
Result(file, status, id, error) ==
  [filename |-> file, status |-> status, id |-> id, error |-> error]

Row(name, status, text) == [name |-> name, status |-> status, text |-> text]

\* (variant: the row of the file being uploaded is not marked)
progressRows_noSpinner(allFiles, completedResults) ==
  [k \in 1..Len(allFiles) |->
        IF k > Len(completedResults)
        THEN Row(allFiles[k], "pending", Message("Waiting...", 0))
        ELSE IF completedResults[k].status = "success"
        THEN Row(allFiles[k], "success", Message("Transcription complete", 0))
        ELSE Row(allFiles[k], "error", completedResults[k].error)]

\* showBatchResultsProgress(allFiles, completedResults): the rendered rows
progressRows(allFiles, completedResults) ==
  LET totalFiles == Len(allFiles)
      doneCount == Len(completedResults)
  IN [k \in 1..totalFiles |->
        IF k - 1 = doneCount /\ doneCount < totalFiles
        THEN Row(allFiles[k], "processing", Message("Processing...", 0))
        ELSE IF k > Len(completedResults)
        THEN Row(allFiles[k], "pending", Message("Waiting...", 0))
        ELSE IF completedResults[k].status = "success"
        THEN Row(allFiles[k], "success", Message("Transcription complete", 0))
        ELSE Row(allFiles[k], "error", completedResults[k].error)]

progressSummary(allFiles, completedResults) ==
  [kind |-> "progress", done |-> Len(completedResults), succeeded |-> 0,
   failed |-> 0, total |-> Len(allFiles)]

\* (variant: "all processed" is chosen on successCount instead of errorCount)
completeSummary_bySuccess(successCount, errorCount, totalFiles) ==
  IF successCount > 0
  THEN [kind |-> "all", done |-> 0, succeeded |-> 0, failed |-> 0,
        total |-> totalFiles]
  ELSE [kind |-> "tally", done |-> 0, succeeded |-> successCount,
        failed |-> errorCount, total |-> totalFiles]

\* showBatchComplete(results, successCount, errorCount, totalFiles)
completeSummary(successCount, errorCount, totalFiles) ==
  IF errorCount = 0
  THEN [kind |-> "all", done |-> 0, succeeded |-> 0, failed |-> 0,
        total |-> totalFiles]
  ELSE [kind |-> "tally", done |-> 0, succeeded |-> successCount,
        failed |-> errorCount, total |-> totalFiles]

completeRows(results) ==
  [k \in 1..Len(results) |->
     IF results[k].status = "error"
     THEN Row(results[k].filename, "error", results[k].error)
     ELSE Row(results[k].filename, "success", Message("Transcription complete", 0))]

\* The batch loop from the top of iteration tk.i to its next await, or to
\* the end of handleBatchUpload.  tk is the task with the results so far.
batchContinue(t, tk, reqs, snt) ==
  IF tk.i < tk.totalFiles /\ tk.i + 1 <= Len(selectedFiles)
  THEN \* the next file is sent
       /\ tasks' = [tasks EXCEPT ![t] = [tk EXCEPT !.pc = "fetch"]]
       /\ inflight' = reqs \cup {Request(t, tk.i, selectedFiles[tk.i + 1])}
       /\ sent' = Append(snt, Sent(t, tk.i, selectedFiles[tk.i + 1],
                                   batchFormData(fileDiarization(tk.diarizationSettings, tk.i),
                                                 tk.numSpeakersVal)))
       /\ batchResultsReady' = TRUE
       /\ batchResultsSummary' = progressSummary(selectedFiles, tk.results)
       /\ batchResultsList' = progressRows(selectedFiles, tk.results)
       /\ logsContent' =
            LET lc1 == addLog(logsContent, "Processing file", "info")
            IN IF fileDiarization(tk.diarizationSettings, tk.i)
               THEN addLog(lc1, "Diarization enabled for", "info")
               ELSE lc1
       /\ UNCHANGED <<toasts, procVars, resVars, closeTimers>>
  ELSE IF tk.i < tk.totalFiles
  THEN \* this.selectedFiles[i] is undefined: file.name throws outside the try
       /\ tasks' = [tasks EXCEPT ![t] = Ended(tk, "crashed")]
       /\ inflight' = reqs
       /\ sent' = snt
       /\ batchResultsReady' = TRUE
       /\ batchResultsSummary' = progressSummary(selectedFiles, tk.results)
       /\ batchResultsList' = progressRows(selectedFiles, tk.results)
       /\ UNCHANGED <<toasts, procVars, resVars, closeTimers, logsContent>>
  ELSE \* all done
       /\ tasks' = [tasks EXCEPT ![t] = Ended(tk, "done")]
       /\ inflight' = reqs
       /\ sent' = snt
       /\ isProcessing' = FALSE
       /\ processBtnDisabled' = FALSE
       /\ IF tk.lastSuccessData # NoDoc
          THEN /\ currentFile' = tk.lastSuccessData
               /\ sessionResults' = JSON_stringify(tk.lastSuccessData)
               /\ lastResultId' = tk.lastSuccessData.id
          ELSE UNCHANGED <<currentFile, sessionResults, lastResultId>>
       /\ UNCHANGED resultsReady
       /\ batchResultsReady' = TRUE
       /\ batchResultsSummary' =
            completeSummary(tk.successCount, tk.errorCount, tk.totalFiles)
       /\ batchResultsList' = completeRows(tk.results)
       /\ toasts' = <<Toast2("All files processed!",
                             IF tk.errorCount = 0 THEN "success" ELSE "warning",
                             tk.successCount, tk.errorCount)>>
       /\ logsContent' = addLog(logsContent, "Batch complete",
                                IF tk.errorCount = 0 THEN "success" ELSE "warning")
       /\ closeTimers' = closeTimers + 1

\* (variant: only the first success is kept)
lastSuccess_first(prev, data) == IF prev = NoDoc THEN data ELSE prev

\* lastSuccessData = data
lastSuccess(prev, data) == data

\* (variant: a failed file ends the loop)
nextIndex_abort(tk, ok) == IF ok THEN tk.i + 1 ELSE tk.totalFiles

\* for (...; i++): the catch block ends the iteration, not the loop
nextIndex(tk, ok) == tk.i + 1

\* handleBatchUpload after the 200 ms wait: totalFiles is read, the pending
\* rows are rendered and the loop starts.
handleBatchUpload_begin(t) ==
  /\ t \in 1..Len(tasks)
  /\ tasks[t].kind = "batch" /\ tasks[t].pc = "wait200"
  /\ batchContinue(t, [tasks[t] EXCEPT !.diarizationSettings =
                                         collectDiarization(batchFileList),
                                       !.numSpeakersVal = numSpeakers,
                                       !.totalFiles = Len(selectedFiles),
                                       !.queue = selectedFiles,
                                       !.rows = batchFileList],
                   inflight, sent)
  /\ UNCHANGED <<selVars, chanVars, hasLogsContent, logs, legacyUI>>

\* (variant: the loop has no catch block, a failed file ends the call)
handleBatchUpload_response_uncaught(t, r) ==
  /\ t \in 1..Len(tasks)
  /\ tasks[t].kind = "batch" /\ tasks[t].pc = "fetch"
  /\ \E req \in inflight :
       /\ req.task = t /\ req.idx = tasks[t].i
       /\ r \in Responses(req.file)
       /\ IF response_ok(r)
          THEN LET tk == tasks[t]
                   tk1 == [tk EXCEPT !.lastSuccessData = lastSuccess(@, response_json(r)),
                                     !.successCount = @ + 1,
                                     !.results = Append(@, Result(req.file, "success",
                                                        response_json(r).id, NoMessage)),
                                     !.i = nextIndex(tk, TRUE)]
               IN batchContinue(t, tk1, inflight \ {req}, answered(sent, req, r))
          ELSE /\ tasks' = [tasks EXCEPT ![t] = Ended(tasks[t], "crashed")]
               /\ inflight' = inflight \ {req}
               /\ sent' = answered(sent, req, r)
               /\ UNCHANGED <<toasts, procVars, resVars, batchUI, closeTimers, logsContent>>
  /\ UNCHANGED <<selVars, chanVars, hasLogsContent, logs, legacyUI>>

\* handleBatchUpload from the answer for file i to the next await or the end.
handleBatchUpload_response(t, r) ==
  /\ t \in 1..Len(tasks)
  /\ tasks[t].kind = "batch" /\ tasks[t].pc = "fetch"
  /\ \E req \in inflight :
       /\ req.task = t /\ req.idx = tasks[t].i
       /\ r \in Responses(req.file)
       /\ LET tk == tasks[t]
              tk1 == IF response_ok(r)
                     THEN [tk EXCEPT !.lastSuccessData = lastSuccess(@, response_json(r)),
                                     !.successCount = @ + 1,
                                     !.results = Append(@, Result(req.file, "success",
                                                        response_json(r).id, NoMessage)),
                                     !.i = nextIndex(tk, TRUE)]
                     ELSE [tk EXCEPT !.errorCount = @ + 1,
                                     !.results = Append(@, Result(req.file, "error", 0,
                                                                static_errorMessage(r))),
                                     !.i = nextIndex(tk, FALSE)]
          IN batchContinue(t, tk1, inflight \ {req}, answered(sent, req, r))
  /\ UNCHANGED <<selVars, chanVars, hasLogsContent, logs, legacyUI>>

\* ------------------------------------------- other user actions (static)
\* processAnother: form reset, both result panels hidden, selection reset
processAnother ==
  /\ uploadForm_reset
  /\ resetFileSelection
  /\ resultsReady' = FALSE
  /\ hideBatchResults
  /\ logsContent' = addLog(logsContent, "Ready for new upload", "info")
  /\ UNCHANGED <<toasts, procVars, currentFile, sessionResults, lastResultId,
                 chanVars, jobVars,
                 closeTimers, hasLogsContent, logs, legacyUI>>

\* (variant: the reset reconnects after closing)
resetUploadPage_reconnect ==
  /\ uploadForm_reset
  /\ resetFileSelection
  /\ resultsReady' = FALSE
  /\ chan' = Append(closeChan(chan, ws),
                     [rid |-> requestId, state |-> "connecting", opened |-> FALSE,
                      out |-> <<>>])
  /\ ws' = Len(chan) + 1

\* resetUploadPage (static page), as new values of what it writes
resetUploadPage ==
  /\ uploadForm_reset
  /\ resetFileSelection
  /\ resultsReady' = FALSE
  /\ chan' = closeChan(chan, ws)
  /\ ws' = 0

\* clearAll, confirmed.  Nothing is written before the DELETE call comes
\* back, so the step is taken at the moment of the answer.
clearAll(ok) ==
  /\ IF ok
     THEN /\ resetUploadPage
          /\ toasts' = <<Toast("All files cleared successfully", "success")>>
          /\ logsContent' = addLog(logsContent, "All files deleted", "success")
          /\ UNCHANGED <<currentFile, sessionResults, lastResultId, requestId>>
     ELSE /\ toasts' = <<Toast("Failed to clear files", "error")>>
          /\ logsContent' = addLog(logsContent, "Failed to clear files", "error")
          /\ UNCHANGED <<selVars, resVars, chanVars>>
  /\ UNCHANGED <<procVars, batchUI, jobVars, closeTimers, hasLogsContent, logs,
                 legacyUI>>

\* --------------------------------------------- channel events (static)
\* Messages the server end can deliver.
WsMessages ==
  {[type |-> "log", message |-> "Transcribed", level |-> "info", value |-> 0],
   [type |-> "progress", message |-> "", level |-> "", value |-> 45],
   [type |-> "unknown", message |-> "", level |-> "", value |-> 0],
   [type |-> "malformed", message |-> "", level |-> "", value |-> 0]}

\* the connection is established (the static page sets no onopen)
ws_open(c) ==
  /\ c \in 1..Len(chan) /\ chan[c].state = "connecting"
  /\ chan' = [chan EXCEPT ![c].state = "open", ![c].opened = TRUE]
  /\ UNCHANGED <<selVars, toasts, procVars, resVars, batchUI, ws, requestId, jobVars,
                 closeTimers, logVars, legacyUI>>

\* onmessage: JSON.parse throws on a malformed body; a log message is added
ws_onmessage(c, m) ==
  /\ c \in 1..Len(chan) /\ chan[c].state = "open"
  /\ IF m.type = "log"
     THEN logsContent' = addLog(logsContent, m.message, m.level)
     ELSE UNCHANGED logsContent
  /\ UNCHANGED <<selVars, toasts, procVars, resVars, batchUI, chanVars, jobVars,
                 closeTimers, hasLogsContent, logs, legacyUI>>

\* onerror, then onclose: the connection failed or dropped; both only log
\* to the console
ws_onerror(c) ==
  /\ c \in 1..Len(chan) /\ chan[c].state \in {"connecting", "open", "aborted"}
  /\ chan' = [chan EXCEPT ![c].state = "closed"]
  /\ UNCHANGED <<selVars, toasts, procVars, resVars, batchUI, ws, requestId, jobVars,
                 closeTimers, logVars, legacyUI>>

\* onclose: the server closed the connection cleanly
ws_onclose(c) ==
  /\ c \in 1..Len(chan) /\ chan[c].state = "open"
  /\ chan' = [chan EXCEPT ![c].state = "closed"]
  /\ UNCHANGED <<selVars, toasts, procVars, resVars, batchUI, ws, requestId, jobVars,
                 closeTimers, logVars, legacyUI>>

\* =================================================================
\* frontend/upload.js (single-file page)
\* =================================================================
\* addLog: the entry is appended to the panel and to this.logs; over 100
\* entries the oldest is dropped from both.
legacy_addLog(st, m, lv) ==
  LET dom1 == Append(st.dom, Log(m, lv))
      logs1 == Append(st.logs, Log(m, lv))
  IN IF Len(logs1) > 100
     THEN [dom |-> IF Len(dom1) > 100 THEN Tail(dom1) ELSE dom1, logs |-> Tail(logs1)]
     ELSE [dom |-> dom1, logs |-> logs1]

\* clearLogs: both emptied, then 'Logs cleared' is added
legacy_clearLogs == legacy_addLog([dom |-> <<>>, logs |-> <<>>], "Logs cleared", "info")

LogState == [dom |-> logsContent, logs |-> logs]
SetLogs(st) == logsContent' = st.dom /\ logs' = st.logs

\* updateProgress: the width is set to the value given
updateProgress(percentage) == progress' = percentage

\* handleFileSelect: the dialog has put `files` in the input; an invalid
\* first file shows the error and returns, the input keeps the file.
legacy_handleFileSelect(files) ==
  /\ domFiles' = files
  /\ IF Len(files) = 0
     THEN UNCHANGED <<errorMsg, logsContent, logs>>
     ELSE IF ~legacy_validateFile(files[1])
     THEN /\ errorMsg' = Message("Please select a valid audio file", 0)
          /\ UNCHANGED <<logsContent, logs>>
     ELSE /\ SetLogs(legacy_addLog(LogState, "Selected", "info"))
          /\ UNCHANGED errorMsg
  /\ UNCHANGED <<selectedFiles, batchFileList, formVars, toasts, procVars, resVars,
                 batchUI, chanVars, jobVars, closeTimers, hasLogsContent, progress,
                 fallbackTimers>>

\* handleDrop: only a valid first file reaches the input
legacy_handleDrop(files) ==
  /\ Len(files) > 0
  /\ legacy_validateFile(files[1])
  /\ legacy_handleFileSelect(files)

\* connectWebSocket: close the current socket, construct the new one
legacy_connectWebSocket(rid) ==
  /\ chan' = Append(closeChan(chan, ws),
                     [rid |-> rid, state |-> "connecting", opened |-> FALSE,
                      out |-> <<>>])
  /\ ws' = Len(chan) + 1

\* if (this.isProcessing) return;
legacy_handleUpload_busy == isProcessing

\* handleUpload, and processAudioFile up to its first await
legacy_handleUpload ==
  IF Len(domFiles) = 0
  THEN /\ errorMsg' = Message("Please select an audio file first", 0)
       /\ UNCHANGED <<selVars, toasts, procVars, resVars, batchUI, chanVars, jobVars,
                      closeTimers, logVars, progress, fallbackTimers>>
  ELSE IF legacy_handleUpload_busy
  THEN UNCHANGED <<selVars, toasts, procVars, resVars, batchUI, chanVars, jobVars,
                   closeTimers, logVars, legacyUI>>
  ELSE /\ isProcessing' = TRUE
       /\ processBtnDisabled' = TRUE
       /\ updateProgress(0)
       /\ SetLogs(legacy_clearLogs)
       /\ resultsReady' = FALSE
       /\ requestId' = generateRequestId
       /\ legacy_connectWebSocket(generateRequestId)
       /\ tasks' = Append(tasks, NewTask("single", domFiles[1]))
       /\ sent' = <<>>
       /\ UNCHANGED <<selVars, toasts, currentFile, sessionResults, lastResultId,
                      batchUI, inflight, closeTimers, hasLogsContent, errorMsg,
                      fallbackTimers>>

\* processAudioFile after the 200 ms wait: the request is built and sent
legacy_processAudioFile_send(t) ==
  /\ t \in 1..Len(tasks)
  /\ tasks[t].kind = "single" /\ tasks[t].pc = "wait200"
  /\ tasks' = [tasks EXCEPT ![t].pc = "fetch"]
  /\ inflight' = inflight \cup {Request(t, 0, tasks[t].file)}
  /\ sent' = Append(sent, Sent(t, 0, tasks[t].file, legacy_formData))
  /\ SetLogs(legacy_addLog(LogState, "Uploading", "info"))
  /\ updateProgress(10)
  /\ UNCHANGED <<selVars, toasts, procVars, resVars, batchUI, chanVars,
                 closeTimers, hasLogsContent, errorMsg, fallbackTimers>>

\* throw new Error(errorData.detail || `Upload failed: ${response.status}`),
\* or the rejection of fetch itself
legacy_errorMessage(r) ==
  IF r.kind = "network" THEN Message("Failed to fetch", 0)
  ELSE IF r.detail # "" THEN Message(r.detail, 0)
  ELSE Message("Upload failed", r.status)

\* processAudioFile from the answer of the upload call to the end of finally
legacy_processAudioFile_response(t, r) ==
  /\ t \in 1..Len(tasks)
  /\ tasks[t].kind = "single" /\ tasks[t].pc = "fetch"
  /\ Request(t, 0, tasks[t].file) \in inflight
  /\ r \in Responses(tasks[t].file)
  /\ inflight' = inflight \ {Request(t, 0, tasks[t].file)}
  /\ sent' = answered(sent, Request(t, 0, tasks[t].file), r)
  /\ tasks' = [tasks EXCEPT ![t] = Ended(tasks[t], "done")]
  /\ IF response_ok(r)
     THEN /\ currentFile' = response_json(r)
          /\ sessionResults' = JSON_stringify(response_json(r))
          /\ updateProgress(100)
          /\ SetLogs(legacy_addLog(LogState, "Processing complete!", "success"))
          /\ resultsReady' = TRUE
          /\ toasts' = <<Toast("Audio processing complete!", "success")>>
          /\ UNCHANGED errorMsg
     ELSE /\ SetLogs(legacy_addLog(LogState, "Error", "error"))
          /\ errorMsg' = legacy_errorMessage(r)
          /\ UNCHANGED <<currentFile, sessionResults, resultsReady, progress, toasts>>
  /\ isProcessing' = FALSE
  /\ processBtnDisabled' = FALSE
  /\ closeTimers' = closeTimers + 1
  /\ UNCHANGED <<selVars, lastResultId, batchUI, chanVars, hasLogsContent,
                 fallbackTimers>>

\* processAnother: form reset, results hidden, logs cleared
legacy_processAnother ==
  /\ domFiles' = <<>>
  /\ resultsReady' = FALSE
  /\ SetLogs(legacy_addLog(legacy_clearLogs, "Ready to upload another audio file", "info"))
  /\ UNCHANGED <<selectedFiles, batchFileList, formVars, toasts, procVars,
                 currentFile, sessionResults, lastResultId, batchUI, chanVars, jobVars,
                 closeTimers, hasLogsContent, legacyUI>>

\* resetUploadPage, as new values of what it writes
legacy_resetUploadPage ==
  /\ currentFile' = NoDoc
  /\ isProcessing' = FALSE
  /\ domFiles' = <<>>
  /\ resultsReady' = FALSE
  /\ processBtnDisabled' = FALSE
  /\ sessionResults' = NoItem
  /\ chan' = closeChan(chan, ws)
  /\ ws' = 0

\* clearAll, confirmed.  Nothing is written before the DELETE call comes
\* back; the page is reset whether the call succeeded or not.
legacy_clearAll(ok) ==
  /\ legacy_resetUploadPage
  /\ IF ok
     THEN /\ toasts' = <<Toast("All files cleared successfully!", "success")>>
          /\ SetLogs(legacy_addLog(LogState, "Cleared all uploaded files and results",
                                   "info"))
     ELSE /\ toasts' = <<Toast("Cleared local data only", "warning")>>
          /\ UNCHANGED <<logsContent, logs>>
  /\ UNCHANGED <<selectedFiles, batchFileList, formVars, lastResultId, batchUI,
                 requestId, jobVars, closeTimers, hasLogsContent, legacyUI>>

\* ------------------------------------ channel events (frontend/upload.js)
\* onopen
legacy_ws_onopen(c) ==
  /\ c \in 1..Len(chan) /\ chan[c].state = "connecting"
  /\ chan' = [chan EXCEPT ![c].state = "open", ![c].opened = TRUE]
  /\ SetLogs(legacy_addLog(LogState, "Connected to real-time logging", "info"))
  /\ UNCHANGED <<selVars, toasts, procVars, resVars, batchUI, ws, requestId, jobVars,
                 closeTimers, hasLogsContent, legacyUI>>

\* handleLogMessage: the progress a log text stands for (0: none)
handleLogMessage_progress(message) ==
  CASE message = "Processing a.mp3" -> 30
    [] message = "Processing audio with duration" -> 50
    [] message = "Detected language" -> 60
    [] message = "Transcribed" -> 75
    [] message = "Summary generated" -> 90
    [] message = "Processing complete" -> 95
    [] OTHER -> 0

\* onmessage: a log goes to handleLogMessage, a progress value to
\* updateProgress; anything else, and a body that does not parse, is dropped
legacy_ws_onmessage(c, m) ==
  /\ c \in 1..Len(chan) /\ chan[c].state = "open"
  /\ IF m.type = "log"
     THEN /\ SetLogs(legacy_addLog(LogState, m.message, m.level))
          /\ IF handleLogMessage_progress(m.message) # 0
             THEN updateProgress(handleLogMessage_progress(m.message))
             ELSE UNCHANGED progress
     ELSE IF m.type = "progress"
     THEN /\ updateProgress(m.value)
          /\ UNCHANGED <<logsContent, logs>>
     ELSE UNCHANGED <<logsContent, logs, progress>>
  /\ UNCHANGED <<selVars, toasts, procVars, resVars, batchUI, chanVars, jobVars,
                 closeTimers, hasLogsContent, errorMsg, fallbackTimers>>

\* setupWebSocketFallback: the seven canned entries
fallbackLogs ==
  << "Processing audio file...", "Analyzing audio quality...",
     "Detecting speech segments...", "Converting speech to text...",
     "Formatting transcript...", "Analyzing content...", "Generating AI summary..." >>

\* The job started last, while its call has not returned; 0 when it has or
\* when none was started (not in the code)
runningTask ==
  IF tasks # <<>> /\ tasks[Len(tasks)].pc \in {"wait200", "fetch"} THEN Len(tasks) ELSE 0

\* (variant: a channel error ends the task with an error)
legacy_ws_onerror_fatal(c) ==
  /\ c \in 1..Len(chan) /\ chan[c].state \in {"connecting", "open", "aborted"}
  /\ chan' = [chan EXCEPT ![c].state = "closed"]
  /\ SetLogs(legacy_addLog(LogState, "Real-time logging disconnected", "warning"))
  /\ fallbackTimers' = Append(fallbackTimers, [next |-> 1, task |-> runningTask])
  /\ isProcessing' = FALSE
  /\ errorMsg' = Message("Connection lost", 0)
  /\ UNCHANGED <<selVars, toasts, processBtnDisabled, resVars, batchUI, ws, requestId,
                 jobVars, closeTimers, hasLogsContent, progress>>

\* onerror (the connection failed or dropped; onclose follows): a warning
\* is logged and startFallbackLogs sets one timer per canned entry
legacy_ws_onerror(c) ==
  /\ c \in 1..Len(chan) /\ chan[c].state \in {"connecting", "open", "aborted"}
  /\ chan' = [chan EXCEPT ![c].state = "closed"]
  /\ SetLogs(legacy_addLog(LogState, "Real-time logging disconnected", "warning"))
  /\ fallbackTimers' = Append(fallbackTimers, [next |-> 1, task |-> runningTask])
  /\ UNCHANGED <<selVars, toasts, procVars, resVars, batchUI, ws, requestId, jobVars,
                 closeTimers, hasLogsContent, progress, errorMsg>>

\* onclose: the server closed the connection; console only
legacy_ws_onclose(c) ==
  /\ c \in 1..Len(chan) /\ chan[c].state = "open"
  /\ chan' = [chan EXCEPT ![c].state = "closed"]
  /\ UNCHANGED <<selVars, toasts, procVars, resVars, batchUI, ws, requestId, jobVars,
                 closeTimers, logVars, legacyUI>>

\* A fallback timer fires: fallbackTimers[k].next is the next entry of the
\* k-th startFallbackLogs call (its timers fire in the order of their delays)
startFallbackLogs_timeout(k) ==
  /\ k \in 1..Len(fallbackTimers)
  /\ fallbackTimers[k].next <= MaxFallback
  /\ IF isProcessing
     THEN SetLogs(legacy_addLog(LogState, fallbackLogs[fallbackTimers[k].next], "info"))
     ELSE UNCHANGED <<logsContent, logs>>
  /\ fallbackTimers' =
       IF fallbackTimers[k].next = Len(fallbackLogs)
       THEN SubSeq(fallbackTimers, 1, k - 1) \o SubSeq(fallbackTimers, k + 1, Len(fallbackTimers))
       ELSE [fallbackTimers EXCEPT ![k].next = @ + 1]
  /\ UNCHANGED <<selVars, toasts, procVars, resVars, batchUI, chanVars, jobVars,
                 closeTimers, hasLogsContent, progress, errorMsg>>

\* =================================================================
\* Specifications
\* =================================================================
\* What the user does is counted: a behaviour holds at most MaxEdits
\* gestures (MaxClicks in SpecPages), and the server end delivers at most
\* MaxMsgs channel messages.  The WebSocket URL is built from location.host
\* and the request id, so the constructor is taken not to throw.
BatchRunning == \E t \in 1..Len(tasks) : tasks[t].kind = "batch" /\ tasks[t].pc = "fetch"
Touch ==
  touched' = IF Len(tasks') > Len(tasks) THEN FALSE
             ELSE touched \/ (BatchRunning /\ selectedFiles' # selectedFiles)
User(A) == edits < MaxEdits /\ A /\ edits' = edits + 1 /\ Touch /\ UNCHANGED <<msgs, page>>
Sys(A) == A /\ UNCHANGED <<edits, msgs, page>> /\ Touch
Click(A) == edits < MaxClicks /\ A /\ edits' = edits + 1 /\ Touch /\ UNCHANGED <<msgs, page>>
Deliver(A) == msgs < MaxMsgs /\ A /\ msgs' = msgs + 1 /\ Touch /\ UNCHANGED <<edits, page>>
Static(A) == page = "static" /\ A
Legacy(A) == page = "legacy" /\ A

Next ==
  \/ Static(User(\E files \in PickLists(SmallFiles) : FileSelect(files)))
  \/ Static(User(\E files \in PickLists(SmallFiles) : handleDrop(files)))
  \/ Static(User(\E index \in 1..Len(batchFileList) : removeFileFromBatch(index)))
  \/ Static(User(processAnother))
  \/ Static(User(\E ok \in BOOLEAN : clearAll(ok)))
  \/ Static(User(handleUpload(FALSE)))
  \/ Static(Sys(\E t \in 1..Len(tasks) : processAudioFile_send(t)))
  \/ Static(Sys(\E req \in inflight : \E r \in Responses(req.file) :
                   processAudioFile_response(req.task, r)))
  \/ Static(Sys(\E t \in 1..Len(tasks) : handleBatchUpload_begin(t)))
  \/ Static(Sys(\E req \in inflight : \E r \in Responses(req.file) :
                   handleBatchUpload_response(req.task, r)))
  \/ Static(Sys(closeTimerFires))

Spec == Init /\ [][Next]_vars

\* Both pages with single files and the events of the log channel: one
\* upload per page load, with the user free to act before, during and after.
FirstUpload(A) == tasks = <<>> /\ A

OneFile == {Range(1, 1), Range(2, 2)}

\* frontend/static/upload.js in a document with a log panel, which
\* initializeApp fills with two entries, or frontend/upload.js
InitPages ==
  /\ InitPage
  /\ page \in {"static", "legacy"}
  /\ hasLogsContent = TRUE
  /\ logsContent = IF page = "static"
                   THEN <<Log("Ready to process audio files", "info"),
                          Log("System initialized successfully", "success")>>
                   ELSE <<>>

NextPages ==
  \/ Static(Click(\E files \in OneFile : FileSelect(files)))
  \/ Static(Click(processAnother))
  \/ Static(Click(\E ok \in BOOLEAN : clearAll(ok)))
  \/ Static(Click(FirstUpload(handleUpload(FALSE))))
  \/ Static(Sys(\E t \in 1..Len(tasks) : processAudioFile_send(t)))
  \/ Static(Sys(\E req \in inflight : \E r \in Responses(req.file) :
                   processAudioFile_response(req.task, r)))
  \/ Static(Sys(\E c \in 1..Len(chan) : ws_open(c)))
  \/ Static(Deliver(\E c \in 1..Len(chan) : \E m \in WsMessages : ws_onmessage(c, m)))
  \/ Static(Sys(\E c \in 1..Len(chan) : ws_onerror(c)))
  \/ Static(Sys(\E c \in 1..Len(chan) : ws_onclose(c)))
  \/ Legacy(Click(\E files \in OneFile : legacy_handleFileSelect(files)))
  \/ Legacy(Click(\E files \in OneFile : legacy_handleDrop(files)))
  \/ Legacy(Click(FirstUpload(legacy_handleUpload)))
  \/ Legacy(Click(legacy_processAnother))
  \/ Legacy(Click(\E ok \in BOOLEAN : legacy_clearAll(ok)))
  \/ Legacy(Sys(\E t \in 1..Len(tasks) : legacy_processAudioFile_send(t)))
  \/ Legacy(Sys(\E req \in inflight : \E r \in Responses(req.file) :
                   legacy_processAudioFile_response(req.task, r)))
  \/ Legacy(Sys(\E c \in 1..Len(chan) : legacy_ws_onopen(c)))
  \/ Legacy(Deliver(\E c \in 1..Len(chan) : \E m \in WsMessages : legacy_ws_onmessage(c, m)))
  \/ Legacy(Sys(\E c \in 1..Len(chan) : legacy_ws_onerror(c)))
  \/ Legacy(Sys(\E c \in 1..Len(chan) : legacy_ws_onclose(c)))
  \/ Legacy(Sys(\E k \in 1..Len(fallbackTimers) : startFallbackLogs_timeout(k)))
  \/ Sys(closeTimerFires)

SpecPages == InitPages /\ [][NextPages]_vars

\* Selection only, over long file lists.
NextCap ==
  \/ Sys(\E files \in LongLists \cup RunLists(SmallFiles) : FileSelect(files))
  \/ Sys(\E files \in LongLists : handleDrop(files))
  \/ Sys(\E index \in {1, Len(batchFileList)} : removeFileFromBatch(index))

SpecCap == Init /\ [][NextCap]_vars

\* Both pages with single-file uploads one after the other and the events
\* of the log channel; the page is not reset in between.
AudioFile == {Range(1, 1)}
\* ... and the upload call either succeeds with the first document or is
\* rejected by the network
Replies(f) ==
  {r \in Responses(f) : r.kind = "network" \/ (r.kind = "ok" /\ r.doc.id = 1)}

NextChannels ==
  \/ Static(Click(\E files \in AudioFile : FileSelect(files)))
  \/ Static(Click(handleUpload(FALSE)))
  \/ Static(Sys(\E t \in 1..Len(tasks) : processAudioFile_send(t)))
  \/ Static(Sys(\E req \in inflight : \E r \in Replies(req.file) :
                   processAudioFile_response(req.task, r)))
  \/ Static(Sys(\E c \in 1..Len(chan) : ws_open(c)))
  \/ Static(Deliver(\E c \in 1..Len(chan) : \E m \in WsMessages : ws_onmessage(c, m)))
  \/ Static(Sys(\E c \in 1..Len(chan) : ws_onerror(c)))
  \/ Static(Sys(\E c \in 1..Len(chan) : ws_onclose(c)))
  \/ Legacy(Click(\E files \in AudioFile : legacy_handleFileSelect(files)))
  \/ Legacy(Click(legacy_handleUpload))
  \/ Legacy(Sys(\E t \in 1..Len(tasks) : legacy_processAudioFile_send(t)))
  \/ Legacy(Sys(\E req \in inflight : \E r \in Replies(req.file) :
                   legacy_processAudioFile_response(req.task, r)))
  \/ Legacy(Sys(\E c \in 1..Len(chan) : legacy_ws_onopen(c)))
  \/ Legacy(Deliver(\E c \in 1..Len(chan) : \E m \in WsMessages : legacy_ws_onmessage(c, m)))
  \/ Legacy(Sys(\E c \in 1..Len(chan) : legacy_ws_onerror(c)))
  \/ Legacy(Sys(\E c \in 1..Len(chan) : legacy_ws_onclose(c)))
  \/ Legacy(Sys(\E k \in 1..Len(fallbackTimers) : startFallbackLogs_timeout(k)))
  \/ Sys(closeTimerFires)

SpecChannels == InitPages /\ [][NextChannels]_vars

\* Both pages with single-file uploads one after the other, resets, and the
\* sockets' own events; no message is delivered.
NextSockets ==
  \/ Static(Click(\E files \in AudioFile : FileSelect(files)))
  \/ Static(Click(handleUpload(FALSE)))
  \/ Static(Click(\E ok \in BOOLEAN : clearAll(ok)))
  \/ Static(Sys(\E t \in 1..Len(tasks) : processAudioFile_send(t)))
  \/ Static(Sys(\E req \in inflight : \E r \in Replies(req.file) :
                   processAudioFile_response(req.task, r)))
  \/ Static(Sys(\E c \in 1..Len(chan) : ws_open(c)))
  \/ Static(Sys(\E c \in 1..Len(chan) : ws_onerror(c)))
  \/ Static(Sys(\E c \in 1..Len(chan) : ws_onclose(c)))
  \/ Legacy(Click(\E files \in AudioFile : legacy_handleFileSelect(files)))
  \/ Legacy(Click(legacy_handleUpload))
  \/ Legacy(Click(\E ok \in BOOLEAN : legacy_clearAll(ok)))
  \/ Legacy(Sys(\E t \in 1..Len(tasks) : legacy_processAudioFile_send(t)))
  \/ Legacy(Sys(\E req \in inflight : \E r \in Replies(req.file) :
                   legacy_processAudioFile_response(req.task, r)))
  \/ Legacy(Sys(\E c \in 1..Len(chan) : legacy_ws_onopen(c)))
  \/ Legacy(Sys(\E c \in 1..Len(chan) : legacy_ws_onerror(c)))
  \/ Legacy(Sys(\E c \in 1..Len(chan) : legacy_ws_onclose(c)))
  \/ Sys(closeTimerFires)

SpecSockets == InitPages /\ [][NextSockets]_vars

\* Both pages from a submission (single or batch) to the delayed close of
\* its socket, with resets in between.  A timeout that was set fires: the
\* close timer is weakly fair.
NextClose ==
  \/ Static(Click(\E files \in PickLists(SmallFiles) : FileSelect(files)))
  \/ Static(Click(handleUpload(FALSE)))
  \/ Static(Click(\E ok \in BOOLEAN : clearAll(ok)))
  \/ Static(Sys(\E t \in 1..Len(tasks) : processAudioFile_send(t)))
  \/ Static(Sys(\E req \in inflight : \E r \in Replies(req.file) :
                   processAudioFile_response(req.task, r)))
  \/ Static(Sys(\E t \in 1..Len(tasks) : handleBatchUpload_begin(t)))
  \/ Static(Sys(\E req \in inflight : \E r \in Replies(req.file) :
                   handleBatchUpload_response(req.task, r)))
  \/ Static(Sys(\E c \in 1..Len(chan) : ws_open(c)))
  \/ Legacy(Click(\E files \in AudioFile : legacy_handleFileSelect(files)))
  \/ Legacy(Click(legacy_handleUpload))
  \/ Legacy(Click(\E ok \in BOOLEAN : legacy_clearAll(ok)))
  \/ Legacy(Sys(\E t \in 1..Len(tasks) : legacy_processAudioFile_send(t)))
  \/ Legacy(Sys(\E req \in inflight : \E r \in Replies(req.file) :
                   legacy_processAudioFile_response(req.task, r)))
  \/ Legacy(Sys(\E c \in 1..Len(chan) : legacy_ws_onopen(c)))
  \/ Sys(closeTimerFires)

SpecClose == InitPages /\ [][NextClose]_vars /\ WF_vars(Sys(closeTimerFires))

\* The batch-capable page with a user who also acts while a job runs:
\* picks, removals and resets in any state, up to MaxGestures gestures.
Gesture(A) ==
  edits < MaxGestures /\ A /\ edits' = edits + 1 /\ Touch /\ UNCHANGED <<msgs, page>>

NextRecover ==
  \/ Static(Gesture(\E files \in PickLists(SmallFiles) : FileSelect(files)))
  \/ Static(Gesture(\E index \in 1..Len(batchFileList) : removeFileFromBatch(index)))
  \/ Static(Gesture(processAnother))
  \/ Static(Gesture(\E ok \in BOOLEAN : clearAll(ok)))
  \/ Static(Gesture(handleUpload(FALSE)))
  \/ Static(Sys(\E t \in 1..Len(tasks) : processAudioFile_send(t)))
  \/ Static(Sys(\E req \in inflight : \E r \in Replies(req.file) :
                   processAudioFile_response(req.task, r)))
  \/ Static(Sys(\E t \in 1..Len(tasks) : handleBatchUpload_begin(t)))
  \/ Static(Sys(\E req \in inflight : \E r \in Replies(req.file) :
                   handleBatchUpload_response(req.task, r)))
  \/ Static(Sys(closeTimerFires))

SpecRecover == Init /\ [][NextRecover]_vars

\* The Clear Logs button of the batch-capable page: the panel's content is
\* replaced by one 'Logs cleared' entry.
clearLogs ==
  /\ logsContent' = IF hasLogsContent THEN <<Log("Logs cleared", "info")>>
                    ELSE logsContent
  /\ UNCHANGED <<selVars, toasts, procVars, resVars, batchUI, chanVars, jobVars,
                 closeTimers, hasLogsContent, logs, legacyUI>>

\* The Clear Logs button of the single-file page
legacy_clearLogs_click ==
  /\ SetLogs(legacy_clearLogs)
  /\ UNCHANGED <<selVars, toasts, procVars, resVars, batchUI, chanVars, jobVars,
                 closeTimers, hasLogsContent, legacyUI>>

\* Either page with a user who fills the log panel: one gesture that logs an
\* entry, repeated, and the gestures that clear the panel.
LogCall(A) ==
  edits < MaxLogCalls /\ A /\ edits' = edits + 1 /\ Touch /\ UNCHANGED <<msgs, page>>

NextLogs ==
  \/ Static(LogCall(processAnother))
  \/ Static(LogCall(clearLogs))
  \/ Legacy(LogCall(\E files \in AudioFile : legacy_handleFileSelect(files)))
  \/ Legacy(LogCall(legacy_processAnother))
  \/ Legacy(LogCall(legacy_clearLogs_click))

SpecLogs == InitPages /\ [][NextLogs]_vars

\* The change handler of the diarization checkbox: unchecking it empties the
\* speaker count.
toggleEnableDiarization ==
  /\ enableDiarization' = ~enableDiarization
  /\ numSpeakers' = IF enableDiarization THEN "" ELSE numSpeakers
  /\ UNCHANGED <<selectedFiles, domFiles, batchFileList, toasts, procVars, resVars,
                 batchUI, chanVars, jobVars, closeTimers, logVars, legacyUI>>

\* What the user can leave in the speaker count field
SpeakerCounts == {"", "2"}

\* The user edits the speaker count, which the options panel shows while the
\* diarization checkbox is checked.
typeNumSpeakers(value) ==
  /\ enableDiarization
  /\ numSpeakers' = value
  /\ UNCHANGED <<selectedFiles, domFiles, batchFileList, enableDiarization, toasts,
                 procVars, resVars, batchUI, chanVars, jobVars, closeTimers, logVars,
                 legacyUI>>

\* The user clicks the diarization checkbox of row `index` of the batch list.
toggleBatchDiarization(index) ==
  /\ index \in 1..Len(batchFileList)
  /\ batchFileList' = [batchFileList EXCEPT ![index].checked = ~@]
  /\ UNCHANGED <<selectedFiles, domFiles, formVars, toasts, procVars, resVars,
                 batchUI, chanVars, jobVars, closeTimers, logVars, legacyUI>>

\* The batch-capable page with a user who sets the diarization controls,
\* picks and removes files and submits, in any order.
FormEdit(A) ==
  edits < MaxFormEdits /\ A /\ edits' = edits + 1 /\ Touch /\ UNCHANGED <<msgs, page>>

NextForm ==
  \/ Static(FormEdit(\E files \in PickLists(SmallFiles) : FileSelect(files)))
  \/ Static(FormEdit(\E index \in 1..Len(batchFileList) : removeFileFromBatch(index)))
  \/ Static(FormEdit(toggleEnableDiarization))
  \/ Static(FormEdit(\E value \in SpeakerCounts : typeNumSpeakers(value)))
  \/ Static(FormEdit(\E index \in 1..Len(batchFileList) : toggleBatchDiarization(index)))
  \/ Static(FormEdit(handleUpload(FALSE)))
  \/ Static(Sys(\E t \in 1..Len(tasks) : processAudioFile_send(t)))
  \/ Static(Sys(\E req \in inflight : \E r \in Replies(req.file) :
                   processAudioFile_response(req.task, r)))
  \/ Static(Sys(\E t \in 1..Len(tasks) : handleBatchUpload_begin(t)))
  \/ Static(Sys(\E req \in inflight : \E r \in Replies(req.file) :
                   handleBatchUpload_response(req.task, r)))

SpecForm == Init /\ [][NextForm]_vars

\* Either page from a submission to the end of its job, with every event of
\* the log channel in between.  The 200 ms wait of a job elapses and, as the
\* premise of termination, every upload call comes back: the steps that
\* continue a job are weakly fair.
JobSteps ==
  \/ Static(Sys(\E t \in 1..Len(tasks) : processAudioFile_send(t)))
  \/ Static(Sys(\E req \in inflight : \E r \in Replies(req.file) :
                   processAudioFile_response(req.task, r)))
  \/ Static(Sys(\E t \in 1..Len(tasks) : handleBatchUpload_begin(t)))
  \/ Static(Sys(\E req \in inflight : \E r \in Replies(req.file) :
                   handleBatchUpload_response(req.task, r)))
  \/ Legacy(Sys(\E t \in 1..Len(tasks) : legacy_processAudioFile_send(t)))
  \/ Legacy(Sys(\E req \in inflight : \E r \in Replies(req.file) :
                   legacy_processAudioFile_response(req.task, r)))

NextFinish ==
  \/ Static(Click(\E files \in PickLists(SmallFiles) : FileSelect(files)))
  \/ Static(Click(handleUpload(FALSE)))
  \/ Static(Sys(\E c \in 1..Len(chan) : ws_open(c)))
  \/ Static(Sys(\E c \in 1..Len(chan) : ws_onerror(c)))
  \/ Static(Sys(\E c \in 1..Len(chan) : ws_onclose(c)))
  \/ Legacy(Click(\E files \in AudioFile : legacy_handleFileSelect(files)))
  \/ Legacy(Click(legacy_handleUpload))
  \/ Legacy(Click(\E ok \in BOOLEAN : legacy_clearAll(ok)))
  \/ Legacy(Sys(\E c \in 1..Len(chan) : legacy_ws_onopen(c)))
  \/ Legacy(Sys(\E c \in 1..Len(chan) : legacy_ws_onerror(c)))
  \/ Legacy(Sys(\E c \in 1..Len(chan) : legacy_ws_onclose(c)))
  \/ Sys(closeTimerFires)
  \/ JobSteps

\* frontend/static/upload.js in a document without a log panel, or
\* frontend/upload.js
InitFinish ==
  /\ InitPage
  /\ page \in {"static", "legacy"}
  /\ hasLogsContent = (page = "legacy")
  /\ logsContent = <<>>

SpecFinish == InitFinish /\ [][NextFinish]_vars /\ WF_vars(JobSteps)

\* The batch-capable page with long file lists picked or dropped, rows
\* removed, the page reset and the selection submitted; every upload call is
\* answered with success.
Accepted(f) == {r \in Replies(f) : r.kind = "ok"}

NextCapSubmit ==
  \/ Static(User(\E files \in LongLists \cup OneFile : FileSelect(files)))
  \/ Static(User(\E files \in LongLists : handleDrop(files)))
  \/ Static(User(\E index \in {1, Len(batchFileList)} : removeFileFromBatch(index)))
  \/ Static(User(processAnother))
  \/ Static(User(handleUpload(FALSE)))
  \/ Static(Sys(\E t \in 1..Len(tasks) : processAudioFile_send(t)))
  \/ Static(Sys(\E req \in inflight : \E r \in Accepted(req.file) :
                   processAudioFile_response(req.task, r)))
  \/ Static(Sys(\E t \in 1..Len(tasks) : handleBatchUpload_begin(t)))
  \/ Static(Sys(\E req \in inflight : \E r \in Accepted(req.file) :
                   handleBatchUpload_response(req.task, r)))

SpecCapSubmit == Init /\ [][NextCapSubmit]_vars

\* =================================================================
\* Properties
\* =================================================================
\* The file policy as the specification words it: an allowed audio type or
\* extension, and at most 25 MiB.
AcceptableFile(f) ==
  /\ File(f).size <= 26214400
  /\ \/ File(f).type \in {"audio/mp3", "audio/mpeg", "audio/wav", "audio/m4a",
                          "audio/x-m4a", "audio/ogg"}
     \/ toLowerCase(File(f).ext) \in {"mp3", "wav", "m4a", "ogg"}

IsBatch(t) == t \in 1..Len(tasks) /\ tasks[t].kind = "batch"
SentOf(t) == SelectSeq(sent, LAMBDA e : e.task = t)
Count(s, outcome) == Cardinality({k \in 1..Len(s) : s[k].outcome = outcome})
\* The batch that was started last has run to its end.
LastBatchDone ==
  /\ Len(tasks) > 0
  /\ tasks[Len(tasks)].kind = "batch"
  /\ tasks[Len(tasks)].pc = "done"

\* C1: during a batch the request for a file is dispatched only when the
\* results of all files before it are recorded, and the upload requests of
\* two batch items are never in flight together.
C1_BatchUploadsSequential ==
  /\ Cardinality({req \in inflight : IsBatch(req.task)}) <= 1
  /\ \A req \in inflight : IsBatch(req.task) =>
       /\ Len(tasks[req.task].results) = req.idx
       /\ \A k \in 1..Len(sent) :
            (sent[k].task = req.task /\ sent[k].idx < req.idx)
              => sent[k].outcome # "pending"

\* The second file of a batch is in flight.
C1_Witness ==
  \E req \in inflight : IsBatch(req.task) /\ req.idx = 1

C3_FinalTally ==
  (LastBatchDone /\ batchResultsReady) =>
    LET N == tasks[Len(tasks)].totalFiles
        S == Count(sent, "ok")
        F == Count(sent, "failed")
    IN /\ S + F = N /\ Len(sent) = N
       /\ batchResultsSummary.total = N
       /\ batchResultsSummary.kind \in {"all", "tally"}
       /\ (batchResultsSummary.kind = "all") <=> (F = 0)
       /\ batchResultsSummary.kind = "tally" =>
            batchResultsSummary.succeeded = S /\ batchResultsSummary.failed = F
       /\ Len(batchResultsList) = N
       /\ \A k \in 1..N :
            (batchResultsList[k].status = "success") <=> (sent[k].outcome = "ok")

\* Three files, the second failed: 2 succeeded, 1 failed out of 3.
C3_Witness ==
  /\ LastBatchDone /\ batchResultsReady
  /\ Len(sent) = 3
  /\ sent[1].outcome = "ok" /\ sent[2].outcome = "failed" /\ sent[3].outcome = "ok"
  /\ batchResultsSummary.succeeded = 2
  /\ batchResultsSummary.failed = 1
  /\ batchResultsSummary.total = 3

\* C4: after a batch with at least one success, currentFile (and its stored
\* copy) is the result of the last file that succeeded, in queue order.
C4_CurrentIsLastSuccess ==
  LastBatchDone =>
    \A k \in 1..Len(sent) :
      (sent[k].outcome = "ok"
       /\ \A j \in (k + 1)..Len(sent) : sent[j].outcome # "ok")
      => /\ currentFile = sent[k].doc
         /\ sessionResults = JSON_stringify(sent[k].doc)

\* Files 1 and 3 of three succeeded, file 2 failed: the result is file 3's.
C4_Witness ==
  /\ LastBatchDone
  /\ Len(sent) = 3
  /\ sent[1].outcome = "ok" /\ sent[2].outcome = "failed" /\ sent[3].outcome = "ok"
  /\ currentFile = sent[3].doc
  /\ currentFile # sent[1].doc

CapToast == "Maximum 10 files per batch. Only first 10 will be used."

\* C7: a pick with more than 10 valid files keeps the first 10 valid files,
\* in order, and shows the too-many-files toast, which is not the per-file
\* invalid-file toast; the latter appears once per invalid file only.
C7_CapAtTen ==
  [][\A files \in LongLists :
       (FileSelect(files) /\ Len(SelectSeq(files, AcceptableFile)) > 10) =>
         /\ selectedFiles' = SubSeq(SelectSeq(files, AcceptableFile), 1, 10)
         /\ \E k \in 1..Len(toasts') :
              toasts'[k].msg = CapToast /\ toasts'[k].msg # "Invalid file. Skipped."
         /\ Cardinality({k \in 1..Len(toasts') :
                           toasts'[k].msg = "Invalid file. Skipped."})
              = Len(files) - Len(SelectSeq(files, AcceptableFile))]_vars

\* Ten files are selected out of a pick with more than ten valid ones.
C7_Witness ==
  /\ Len(selectedFiles) = 10
  /\ Len(SelectSeq(domFiles, AcceptableFile)) > 10
  /\ \E k \in 1..Len(toasts) : toasts[k].msg = CapToast

\* The error on display: the error toast of the batch-capable page, the
\* error line of the single-file page.
ShownError ==
  IF page = "static"
  THEN IF toasts # <<>> /\ toasts[1].type = "error"
       THEN Message(toasts[1].msg, toasts[1].arg)
       ELSE NoMessage
  ELSE errorMsg

\* C6: while the only candidate file is one that fails validation, no step
\* generates a RequestId, constructs a channel, starts a task or sends an
\* upload request for it.
C6_RejectedNeverSubmitted ==
  [][(Len(domFiles) = 1 /\ ~AcceptableFile(domFiles[1]) /\ selectedFiles = <<>>)
       => /\ requestId' = requestId
          /\ Len(chan') = Len(chan)
          /\ Len(tasks') = Len(tasks)
          /\ \A req \in inflight' \ inflight : AcceptableFile(req.file)]_vars

\* C8: the step in which the request of a single-file task is answered with
\* success and document D ends with the page not processing, the results
\* panel shown and currentFile (and its stored copy) equal to D.
C8_SuccessEndsReady ==
  [][\A k \in 1..Len(sent) :
       (/\ Len(sent') = Len(sent)
        /\ tasks[sent[k].task].kind = "single"
        /\ sent[k].outcome = "pending" /\ sent'[k].outcome = "ok")
       => /\ ~isProcessing' /\ ~processBtnDisabled'
          /\ resultsReady'
          /\ currentFile' = sent'[k].doc
          /\ currentFile'.transcript = sent'[k].doc.transcript
          /\ sessionResults' = JSON_stringify(sent'[k].doc)]_vars

\* A single-file task was answered with success; its document is stored.
C8_Witness ==
  /\ resultsReady /\ ~isProcessing
  /\ Len(sent) = 1 /\ sent[1].outcome = "ok"
  /\ tasks[sent[1].task].kind = "single"
  /\ currentFile = sent[1].doc /\ currentFile # NoDoc

\* The upload call of single-file task t comes back with r.
Answer(t, r) ==
  \/ page = "static" /\ processAudioFile_response(t, r)
  \/ page = "legacy" /\ legacy_processAudioFile_response(t, r)

\* C9: the step in which the request of a task fails ends in Error (not
\* processing, no results panel, a message on display); for a non-2xx
\* response the message is the server's detail when there is one and
\* otherwise the generic upload-failed text with the status code.
C9_ErrorMessage ==
  [][\A req \in inflight : \A r \in Responses(req.file) :
       (r.kind # "ok" /\ Answer(req.task, r))
       => /\ ~isProcessing' /\ ~resultsReady'
          /\ ShownError' # NoMessage
          /\ r.kind = "http" =>
               ShownError' = IF r.detail # "" THEN Message(r.detail, 0)
                             ELSE Message("Upload failed", r.status)]_vars

\* A step of the log channel: a message is delivered, or a socket changes
\* state with no socket constructed and this.ws left as it is.
ChannelEvent ==
  \/ msgs' # msgs
  \/ chan' # chan /\ Len(chan') = Len(chan) /\ ws' = ws

\* What a task's outcome shows in.
Outcome ==
  <<isProcessing, processBtnDisabled, resultsReady, currentFile, sessionResults,
    tasks, inflight, sent, errorMsg, toasts>>

\* C10: a channel event changes nothing of the task's outcome; the step in
\* which the upload call is answered ends processing, showing the results
\* panel exactly when the answer is a success and an error otherwise,
\* whatever the channel did before; and the page is processing only while
\* the answer of a task is still to come.
C10_OutcomeByResponseAlone ==
  /\ [](isProcessing => \E t \in 1..Len(tasks) : tasks[t].pc \in {"wait200", "fetch"})
  /\ [][/\ ChannelEvent => UNCHANGED Outcome
        /\ \A k \in 1..Len(sent) :
             (/\ Len(sent') = Len(sent)
              /\ sent[k].outcome = "pending" /\ sent'[k].outcome # "pending")
             => /\ ~isProcessing'
                /\ resultsReady' <=> (sent'[k].outcome = "ok")
                /\ sent'[k].outcome = "failed" => ShownError' # NoMessage]_vars

\* The task ended Ready although its channel failed before the delayed
\* close: the socket is closed, its fallback timers are set, the close
\* timer has not fired yet.
C10_Witness ==
  /\ page = "legacy"
  /\ Len(sent) = 1 /\ sent[1].outcome = "ok"
  /\ resultsReady /\ ~isProcessing
  /\ closeTimers = 1 /\ ws # 0
  /\ chan[ws].state = "closed"
  /\ fallbackTimers # <<>>

\* The socket constructed for RequestId rid failed without ever opening.
NeverOpened(rid) ==
  \E c \in 1..Len(chan) :
    chan[c].rid = rid /\ ~chan[c].opened /\ chan[c].state = "closed"

\* The first entry of the fallback script is in the log on display.
FallbackShown ==
  \E k \in 1..Len(logsContent) : logsContent[k].msg = fallbackLogs[1]

\* C11: when the channel of a submission failed without ever opening, the
\* step in which its upload call is answered ends the task (Ready or Error)
\* and the log on display then holds the first entry of the fallback script.
C11_FallbackLogged ==
  [][\A req \in inflight : \A r \in Responses(req.file) :
       (/\ Answer(req.task, r)
        /\ \E k \in 1..Len(sent) :
             sent[k].task = req.task /\ sent[k].idx = req.idx
             /\ NeverOpened(sent[k].rid))
       => /\ ~isProcessing'
          /\ resultsReady' \/ ShownError' # NoMessage
          /\ FallbackShown']_vars

\* An entry of the fallback script; an entry that a channel message put in
\* the log.
IsFallbackEntry(e) == \E n \in 1..Len(fallbackLogs) : e.msg = fallbackLogs[n]
IsChannelEntry(e) == \E m \in WsMessages : m.type = "log" /\ e.msg = m.message

\* C12: the log of a RequestId (the single-file page empties the log when a
\* submission starts, and appends) never holds an entry of the fallback
\* script with an entry of a real channel event after it.
C12_FallbackNeverMerged ==
  \A i, j \in 1..Len(logsContent) :
    (i < j /\ IsFallbackEntry(logsContent[i])) => ~IsChannelEntry(logsContent[j])

\* C13: while a task runs, no step lowers the percentage on display,
\* whichever of a progress event, a log milestone and a local milestone the
\* step applies.
C13_ProgressMonotonic ==
  [][(isProcessing /\ Len(tasks') = Len(tasks)) => progress' >= progress]_vars

\* C14: the step that dispatches an upload request is taken with the socket
\* for the submission's RequestId already constructed by an earlier step.
C14_ChannelBeforeSubmit ==
  [][Len(sent') > Len(sent) =>
       LET e == sent'[Len(sent')] IN
       /\ e.outcome = "pending"
       /\ e.rid # 0
       /\ \E c \in 1..Len(chan) : chan[c].rid = e.rid]_vars

\* The second file of a batch is in flight and the socket for the batch's
\* RequestId is there.
C14_Witness ==
  \E k \in 1..Len(sent) :
    /\ sent[k].idx = 1 /\ sent[k].outcome = "pending"
    /\ \E c \in 1..Len(chan) : chan[c].rid = sent[k].rid

\* C15: any two upload requests (a single upload, or one file of a batch)
\* are sent under different RequestIds, no two sockets are constructed for
\* the same RequestId, and while a request is pending the current socket,
\* if there is one, is the one constructed for its RequestId.
C15_FreshRequestIdPerAttempt ==
  /\ \A j, k \in 1..Len(sent) : j # k => sent[j].rid # sent[k].rid
  /\ \A c, d \in 1..Len(chan) : c # d => chan[c].rid # chan[d].rid
  /\ \A k \in 1..Len(sent) :
       (sent[k].outcome = "pending" /\ ws # 0) => chan[ws].rid = sent[k].rid

\* C16: a socket that is open, or still connecting, is the one this.ws
\* holds, so at most one is open and no RequestId has two; and the step that
\* constructs a socket leaves the one held before it closed.
C16_OneOpenChannel ==
  /\ [](\A c \in 1..Len(chan) :
          chan[c].state \in {"open", "connecting"} => c = ws)
  /\ [](Cardinality({c \in 1..Len(chan) : chan[c].state = "open"}) <= 1)
  /\ [][(Len(chan') > Len(chan) /\ ws # 0) =>
          /\ chan'[ws].state \in {"closed", "aborted"}
          /\ ws' = Len(chan')]_vars

\* A second submission runs on its own open socket; the socket of the
\* first, which had opened, is closed while its close timer is still pending.
C16_Witness ==
  /\ Len(chan) = 2 /\ ws = 2
  /\ chan[1].opened /\ chan[1].state = "closed"
  /\ chan[2].state = "open"
  /\ closeTimers = 1

\* No socket is open or connecting and this.ws is null.
ChannelClosed ==
  /\ ws = 0
  /\ \A c \in 1..Len(chan) : chan[c].state \notin {"open", "connecting"}

\* C17: the step in which a task or a batch ends, with success or failure,
\* sets one close timer; whenever a close timer is pending, the socket gets
\* closed and this.ws cleared; and a close timer that fires with this.ws
\* already null changes nothing.
C17_DelayedClose ==
  /\ [][\A t \in 1..Len(tasks) :
          (Len(tasks') = Len(tasks) /\ tasks[t].pc # "done" /\ tasks'[t].pc = "done")
            => closeTimers' = closeTimers + 1]_vars
  /\ (closeTimers > 0) ~> ChannelClosed
  /\ [][(closeTimers' < closeTimers /\ ws = 0) =>
          /\ closeTimers' = closeTimers - 1
          /\ UNCHANGED <<selVars, toasts, procVars, resVars, batchUI, chanVars,
                         jobVars, logVars, legacyUI>>]_vars

\* A batch has ended with a failed file, its socket had opened, and the
\* delayed close has run: the socket is closed and this.ws is null.
C17_Witness ==
  /\ LastBatchDone /\ Count(sent, "failed") > 0
  /\ closeTimers = 0
  /\ ws = 0 /\ chan # <<>>
  /\ chan[Len(chan)].opened /\ chan[Len(chan)].state = "closed"

\* A reset by the user: clear-all when it resets the page, or (batch-capable
\* page) process-another.
ResetStep ==
  \/ page = "static" /\ (clearAll(TRUE) \/ processAnother)
  \/ page = "legacy" /\ \E ok \in BOOLEAN : legacy_clearAll(ok)

\* The log entries of an idle page: those written when the page loads and
\* those a reset writes itself.
ResetNotes ==
  {"Ready to process audio files", "System initialized successfully",
   "Logs cleared", "Ready for new upload", "All files deleted",
   "Cleared all uploaded files and results"}

\* C18: a reset leaves no log entry of a task and no progress on display,
\* no socket open or held, and the page idle: not processing, no result
\* panel shown.
C18_ResetReturnsToIdle ==
  [][ResetStep =>
       /\ \A k \in 1..Len(logsContent') : logsContent'[k].msg \in ResetNotes
       /\ progress' = 0
       /\ ChannelClosed'
       /\ ~isProcessing' /\ ~resultsReady' /\ ~batchResultsReady']_vars

\* A step in which resetUploadPage runs (clear-all is its only caller).
ResetCall ==
  \/ page = "static" /\ clearAll(TRUE)
  \/ page = "legacy" /\ \E ok \in BOOLEAN : legacy_clearAll(ok)

\* The state is as resetUploadPage leaves it: every field it writes has the
\* value it writes.
ResetFix ==
  /\ domFiles = <<>> /\ ~resultsReady
  /\ ws = 0
  /\ page = "static" => selectedFiles = <<>> /\ batchFileList = <<>>
  /\ page = "legacy" =>
       /\ currentFile = NoDoc /\ sessionResults = NoItem
       /\ ~isProcessing /\ ~processBtnDisabled

\* C19: a reset leaves the state as a reset leaves it, and a reset taken in
\* such a state with no job in flight changes none of the page's fields (the
\* log line and the toast of clear-all aside), constructs no socket and
\* changes no socket's state.
C19_ResetTwiceIsNoOp ==
  /\ [][ResetCall => ResetFix']_vars
  /\ [][(ResetCall /\ ResetFix /\ ~isProcessing /\ inflight = {}) =>
          UNCHANGED <<selVars, procVars, resVars, batchUI, chanVars, jobVars,
                      closeTimers, legacyUI>>]_vars

\* Clear-all has reset the batch-capable page twice in a row.
C19_Witness ==
  /\ page = "static" /\ ResetFix /\ ~isProcessing /\ inflight = {}
  /\ Len(logsContent) >= 2
  /\ logsContent[1].msg = "All files deleted"
  /\ logsContent[2].msg = "All files deleted"

\* Clear-all, confirmed, with the DELETE call answered 2xx (ok) or not:
\* an error status and a rejected fetch take the same path.
ClearAllStep(ok) ==
  \/ page = "static" /\ clearAll(ok)
  \/ page = "legacy" /\ legacy_clearAll(ok)

\* C20: a confirmed clear-all ends with the page reset, whether the server's
\* bulk-clear call succeeded or failed.
C20_ClearAllResetsAnyway ==
  [][\A ok \in BOOLEAN : ClearAllStep(ok) => ResetFix']_vars

\* No call of processAudioFile or handleBatchUpload is under way.
NoJobRunning ==
  /\ inflight = {}
  /\ \A t \in 1..Len(tasks) : tasks[t].pc \notin {"wait200", "fetch"}

\* handleUpload goes on to start an upload: something is selected and the
\* page is not processing (its two early returns are not taken).
SubmitAccepted == selectedFiles # <<>> /\ ~isProcessing

\* C21: a reset taken with no job running, whatever happened before, leaves
\* the page not processing, and selecting a valid file on a page that is not
\* processing gives a state in which submit is accepted: so a reset followed
\* by a valid selection always leads to a state where submit starts an upload.
C21_RecoverableByReset ==
  /\ [][(ResetStep /\ NoJobRunning) => ~isProcessing']_vars
  /\ [][\A files \in PickLists(SmallFiles) :
          (FileSelect(files) /\ validFilesOf(files) # <<>> /\ ~isProcessing)
            => SubmitAccepted']_vars

\* A result is held: by the page object or in sessionStorage.
ResultHeld == currentFile # NoDoc \/ sessionResults # NoItem

\* C22: a reset leaves no result held, neither in currentFile nor in
\* sessionStorage, and a result comes to be held only in the step in which
\* an upload is answered with success.
C22_ResetDiscardsResult ==
  /\ [][ResetCall => ~ResultHeld']_vars
  /\ [][(~ResultHeld /\ ResultHeld')
          => \E t \in 1..Len(tasks) : tasks[t].pc = "fetch" /\ tasks'[t].pc # "fetch"]_vars

\* The fixed bound of the page's log buffer
LogBound == IF page = "static" THEN 50 ELSE 100

\* `new` is `old` with entries appended at its end in arrival order, entries
\* dropped from its front only when the bound is reached.
AppendedEvictingOldest(old, new, bound) ==
  \E k \in 0..Len(new) :
    LET kept == SubSeq(new, 1, Len(new) - k)
    IN /\ Len(kept) <= Len(old)
       /\ kept = SubSeq(old, Len(old) - Len(kept) + 1, Len(old))
       /\ Len(kept) = Len(old) \/ Len(new) = bound

\* A step that calls clearLogs
ClearLogsStep ==
  \/ page = "static" /\ clearLogs
  \/ page = "legacy" /\ (legacy_processAnother \/ legacy_clearLogs_click)

\* C23: the log panel never holds more than its bound; the stored list, where
\* the page keeps one, holds the same entries as the panel; every step that
\* logs leaves the panel as it was with the new entries after the old ones,
\* the oldest dropped once the bound is reached; and a step that clears the
\* logs leaves what was logged after the clearing, in arrival order.
C23_LogRingBuffer ==
  /\ [](Len(logsContent) <= LogBound)
  /\ [](page = "legacy" => logs = logsContent)
  /\ [][IF ClearLogsStep
        THEN AppendedEvictingOldest(<<>>, logsContent', LogBound)
        ELSE AppendedEvictingOldest(logsContent, logsContent', LogBound)]_vars

\* The last upload job is a single-file task that ended in failure some time
\* ago: its only request failed and its close timer has fired since.
C24_Witness ==
  /\ Len(tasks) > 0
  /\ tasks[Len(tasks)].kind = "single" /\ tasks[Len(tasks)].pc = "done"
  /\ Len(sent) = 1 /\ sent[1].outcome = "failed"
  /\ closeTimers = 0 /\ ws = 0

\* C24: within one job no position is requested twice, so a failed request
\* is never repeated; a task that has ended sends nothing more; and a job
\* starts only in the step of a submit.
C24_SingleShot ==
  /\ [](\A j, k \in 1..Len(sent) :
          (sent[j].task = sent[k].task /\ sent[j].idx = sent[k].idx) => j = k)
  /\ [][\A t \in 1..Len(tasks) :
          (tasks[t].pc \in {"done", "crashed"} /\ Len(tasks') = Len(tasks))
            => Len(SentOf(t)') = Len(SentOf(t))]_vars
  /\ [][Len(tasks') > Len(tasks) => handleUpload(FALSE)]_vars

\* The step sends an upload request: `sent` grows by the request.
SendsRequest == Len(sent') = Len(sent) + 1

\* The speaker count the job of task t works with: the field of the form,
\* which a batch reads once when its loop begins.
CountGiven(t) ==
  IF tasks[t].kind = "batch" /\ tasks[t].pc # "wait200" THEN tasks[t].numSpeakersVal
  ELSE numSpeakers

\* C25: every upload request of the batch-capable page carries
\* enable_diarization, "true" or "false", for a single upload as the form's
\* checkbox says; and it carries num_speakers, with the count given, exactly
\* when its enable_diarization is "true" and a count was given.
C25_DiarizationFields ==
  [][SendsRequest =>
       LET e == sent'[Len(sent')]
           enabled == e.enable_diarization = "true"
       IN /\ e.enable_diarization \in {"true", "false"}
          /\ tasks[e.task].kind = "single" => (enabled <=> enableDiarization)
          /\ e.num_speakers # NoField <=> (enabled /\ CountGiven(e.task) # "")
          /\ e.num_speakers # NoField => e.num_speakers = CountGiven(e.task)]_vars

\* A batch with a speaker count given has sent one file with diarization,
\* count included, and one file without, count omitted.
C25_Witness ==
  \E j, k \in 1..Len(sent) :
    /\ IsBatch(sent[j].task) /\ sent[k].task = sent[j].task
    /\ sent[j].enable_diarization = "true" /\ sent[j].num_speakers = "2"
    /\ sent[k].enable_diarization = "false" /\ sent[k].num_speakers = NoField

\* The checkbox of file f's own row in the batch list `rows` is checked.
OwnToggle(rows, f) == \E k \in 1..Len(rows) : rows[k].name = f /\ rows[k].checked

\* C28: every request of a batch whose selection is left alone while it
\* runs carries as enable_diarization the state that the checkbox of that
\* file's own row had when the batch loop began, whatever was selected,
\* removed and toggled before.
C28_OwnDiarizationToggle ==
  \A t \in 1..Len(tasks) :
    (IsBatch(t) /\ t = Len(tasks) /\ ~touched /\ tasks[t].pc # "wait200") =>
      \A k \in 1..Len(sent) :
        sent[k].task = t =>
          sent[k].enable_diarization =
            (IF OwnToggle(tasks[t].rows, sent[k].file) THEN "true" ELSE "false")

\* A batch started after a removal has run to its end, with the first file
\* sent without diarization and a later one with it.
C28_Witness ==
  /\ LastBatchDone /\ ~touched
  /\ Len(tasks[Len(tasks)].queue) < Len(validFilesOf(domFiles))
  /\ \E j, k \in 1..Len(sent) :
       /\ j < k
       /\ sent[j].enable_diarization = "false"
       /\ sent[k].enable_diarization = "true"

\* Every task that was started has ended and the page is not processing:
\* the last task is Ready or Error.
Terminal ==
  /\ Len(tasks) > 0 /\ ~isProcessing
  /\ \A t \in 1..Len(tasks) : tasks[t].pc = "done"

\* The last request was answered with a failure.
LastFailed == sent # <<>> /\ sent[Len(sent)].outcome = "failed"

RowMove(a, b) ==
  \/ a = b
  \/ a = "pending" /\ b = "processing"
  \/ a = "processing" /\ b \in {"success", "error"}

\* The last task is a batch in its loop, with its selection left alone.
BatchInLoop ==
  /\ IsBatch(Len(tasks)) /\ tasks[Len(tasks)].pc = "fetch" /\ ~touched

ScriptIndex(e) ==
  IF IsFallbackEntry(e)
  THEN CHOOSE n \in 1..Len(fallbackLogs) : e.msg = fallbackLogs[n]
  ELSE 0

\* The entries of the fallback script in the log
FallbackEntries == SelectSeq(logsContent, IsFallbackEntry)

\* C29: on the single-file page, whose log is emptied when a task starts, a
\* channel error during a task sets the fallback timers in that same step;
\* the entries of the fallback script in the task's log are in script order
\* with none repeated; and none is added while the page is not processing.
C29_FallbackScript ==
  /\ [](page = "legacy" =>
          \A i, j \in 1..Len(FallbackEntries) :
            i < j => ScriptIndex(FallbackEntries[i]) < ScriptIndex(FallbackEntries[j]))
  /\ [][(page = "legacy" /\ isProcessing /\ \E c \in 1..Len(chan) : legacy_ws_onerror(c))
          => Len(fallbackTimers') = Len(fallbackTimers) + 1]_vars
  /\ [][(page = "legacy" /\ ~isProcessing /\ ~isProcessing')
          => Len(FallbackEntries') <= Len(FallbackEntries)]_vars

\* Socket c has been constructed and is open.
IsOpen(c) == c <= Len(chan) /\ chan[c].state = "open"

\* C30: on either page a socket that is open does not stay open for ever
\* without a keep-alive ping sent on it, and nothing but pings is ever sent
\* on a socket.
C30_KeepAlive ==
  /\ \A c \in 1..MaxClicks :
       IsOpen(c) ~> (~IsOpen(c) \/ \E k \in 1..Len(chan[c].out) : chan[c].out[k] = "ping")
  /\ [](\A c \in 1..Len(chan) : \A k \in 1..Len(chan[c].out) : chan[c].out[k] = "ping")

\* The calls of processAudioFile / handleBatchUpload that have not returned
JobsInFlight == {t \in 1..Len(tasks) : tasks[t].pc \in {"wait200", "fetch"}}

\* The submit button is pressed.
SubmitStep ==
  \/ page = "static" /\ handleUpload(FALSE)
  \/ page = "legacy" /\ legacy_handleUpload

\* C31: at most one upload job is in flight at a time; the page is
\* processing in exactly the states where a job is in flight; and a submit
\* made while a job is in flight generates no RequestId, constructs no
\* socket, starts no task and sends no request.
C31_OneJobAtATime ==
  /\ [](Cardinality(JobsInFlight) <= 1)
  /\ [](isProcessing <=> JobsInFlight # {})
  /\ [][(SubmitStep /\ JobsInFlight # {}) =>
          /\ requestId' = requestId
          /\ Len(chan') = Len(chan)
          /\ Len(tasks') = Len(tasks)
          /\ inflight' = inflight]_vars

\* Socket c was constructed for a job that has not returned yet (the
\* RequestId of a job is its place among the jobs started).
OwnerInFlight(c) == chan[c].rid \in JobsInFlight

\* C32: a delayed close that fires closes no socket of a job that is still
\* in flight and does not clear this.ws while it holds such a socket: the
\* timer a finished task has set leaves the channel of the next task alone.
C32_CloseOwnChannelOnly ==
  [][closeTimers' < closeTimers =>
       \A c \in 1..Len(chan) :
         OwnerInFlight(c) =>
           /\ chan'[c].state = chan[c].state
           /\ ws = c => ws' = c]_vars

\* The k-th startFallbackLogs call was made while a job was in flight, and
\* a later job is in flight now.
TimerOfEarlierTask(k) ==
  /\ fallbackTimers[k].task # 0
  /\ \E b \in JobsInFlight : fallbackTimers[k].task < b

\* C33: a fallback timer that fires appends its entry to the log only when
\* no job later than the one it was started in is in flight: the timers of
\* task A write nothing into the log of a later task B.
C33_FallbackOwnLogOnly ==
  [][\A k \in 1..Len(fallbackTimers) :
       (startFallbackLogs_timeout(k) /\ TimerOfEarlierTask(k))
         => logsContent' = logsContent]_vars

\* C34: a batch finishes whatever the user does to the selection while it
\* runs: its loop is never left by an exception, and the step in which it
\* ends leaves the page not processing with one result row per request the
\* batch sent, each row naming the file that request carried.
C34_BatchSurvivesSelectionChange ==
  /\ [](\A t \in 1..Len(tasks) : IsBatch(t) => tasks[t].pc # "crashed")
  /\ [][\A t \in 1..Len(tasks) :
          (IsBatch(t) /\ tasks[t].pc = "fetch" /\ tasks'[t].pc = "done") =>
            /\ ~isProcessing'
            /\ Len(batchResultsList') = Len(SentOf(t)')
            /\ \A k \in 1..Len(batchResultsList') :
                 batchResultsList'[k].name = SentOf(t)'[k].file]_vars

\* Job t has finished: its call has run to its end.
Finished(t) == t <= Len(tasks) /\ tasks[t].pc = "done"

\* Job t is a batch and its selection was changed while it ran.
Disturbed(t) == t <= Len(tasks) /\ IsBatch(t) /\ touched

HeldResult == <<currentFile, sessionResults>>

\* Job t has sent a request and none of its requests was answered with
\* success.
NoSuccess(t) ==
  /\ \E k \in 1..Len(sent) : sent[k].task = t
  /\ \A k \in 1..Len(sent) : sent[k].task = t => sent[k].outcome # "ok"

\* C36: no step of a job that ends in Error writes the result held: the
\* submit that starts a job leaves currentFile and its stored copy as they
\* are, and so does every later step of a job, of a single task or of a
\* batch, up to and including its last, as long as none of its requests has
\* succeeded; and the step in which the request of a single task fails
\* leaves the results panel hidden.
C36_ErrorKeepsResult ==
  /\ [][Len(tasks') > Len(tasks) => UNCHANGED HeldResult]_vars
  /\ [][\A t \in 1..Len(tasks) :
          (tasks'[t] # tasks[t] /\ NoSuccess(t)') => UNCHANGED HeldResult]_vars
  /\ [][\A t \in 1..Len(tasks) :
          (/\ tasks[t].kind = "single"
           /\ tasks[t].pc = "fetch" /\ tasks'[t].pc = "done"
           /\ NoSuccess(t)') => ~resultsReady']_vars

\* A second submission of the same file has failed; the result of the
\* first is still held, in currentFile and in sessionStorage, and the
\* results panel is hidden.
C36_Witness ==
  /\ Len(tasks) = 2
  /\ tasks[2].kind = "single" /\ tasks[2].pc = "done"
  /\ Len(sent) = 1 /\ sent[1].outcome = "failed"
  /\ currentFile # NoDoc
  /\ sessionResults = JSON_stringify(currentFile)
  /\ ~resultsReady /\ ~isProcessing

\* C37: when the upload call of a job comes back on a page that a clear-all
\* has reset in the meantime (the page is as the reset left it while the job
\* still awaits its answer), the answer stores no result, neither in
\* currentFile nor in sessionStorage, and does not show the results panel.
C37_LateResponseAfterReset ==
  [][(/\ ResetFix
      /\ \E t \in 1..Len(tasks) : tasks[t].pc = "fetch" /\ tasks'[t].pc = "done")
       => /\ UNCHANGED HeldResult
          /\ ~resultsReady']_vars

\* C38: the selection never holds more than 10 files, whichever handler
\* wrote it (a pick, a drop, a removal, or the submit falling back to the
\* file input), and no batch counts, queues or sends more than 10 files.
C38_AtMostTenFiles ==
  /\ Len(selectedFiles) <= 10
  /\ \A t \in 1..Len(tasks) :
       IsBatch(t) =>
         /\ tasks[t].totalFiles <= 10
         /\ Len(tasks[t].queue) <= 10
         /\ Len(SentOf(t)) <= 10

\* A batch picked from a list with more than ten valid files has run to its
\* end with ten requests sent.
C38_Witness ==
  /\ LastBatchDone
  /\ Len(sent) = 10
  /\ tasks[Len(tasks)].totalFiles = 10
  /\ Len(SelectSeq(domFiles, AcceptableFile)) > 10

====
